---- MODULE Spec2Model ----
(***************************************************************************)
(* Model of the operation log of agentic-jujutsu                           *)
(* (packages/agentic-jujutsu/src/operations.rs): JJOperation records, the  *)
(* bounded JJOperationLog behind its Mutex, and the threads that build     *)
(* records, append them, clear the log and query it.                       *)
(***************************************************************************)
EXTENDS Integers, Sequences, FiniteSets, TLC

\* ------------------------------------------------------------------ bounds
MaxOps == 3        \* records created (JJOperation::new calls) in one run
MaxCap == 2        \* largest max_entries a log is constructed with
MaxLimit == 3      \* largest limit passed to get_recent / get_user_operations
MaxBuilt == 2      \* records built and waiting to be appended at one time
MaxStored == 3     \* records in a log whose queries are examined on their own
MaxArgs == 2       \* tokens of a command line passed to detect_operation_type
MaxCalls == 2      \* setter calls made on a builder before build()
MaxExecutes == 2   \* execute() and describe() calls that log a record in one run
MaxClones == 2     \* clones made of a log or a wrapper

\* ------------------------------------------------------------ u64 values
\* A u64 is kept as four 16-bit limbs, least significant first, so that the
\* whole 64-bit range and its overflow are exact.
LimbBase == 2^16

U64(n) == <<n % LimbBase, (n \div LimbBase) % LimbBase, 0, 0>>

U64Zero == <<0, 0, 0, 0>>

U64Max == <<LimbBase - 1, LimbBase - 1, LimbBase - 1, LimbBase - 1>>

\* a + b over the naturals: the low 64 bits and the carry out of bit 63.
U64AddWide(a, b) ==
    LET s1 == a[1] + b[1]
        s2 == a[2] + b[2] + (s1 \div LimbBase)
        s3 == a[3] + b[3] + (s2 \div LimbBase)
        s4 == a[4] + b[4] + (s3 \div LimbBase)
    IN  [low   |-> <<s1 % LimbBase, s2 % LimbBase, s3 % LimbBase, s4 % LimbBase>>,
         carry |-> s4 \div LimbBase]

U64Gt(a, b) ==
    \E i \in 1..4 : a[i] > b[i] /\ \A j \in (i + 1)..4 : a[j] = b[j]

\* a / n (integer division) for a small positive n.
U64DivSmall(a, n) ==
    LET c4 == a[4]
        c3 == (c4 % n) * LimbBase + a[3]
        c2 == (c3 % n) * LimbBase + a[2]
        c1 == (c2 % n) * LimbBase + a[1]
    IN  <<c1 \div n, c2 \div n, c3 \div n, c4 \div n>>

\* ------------------------------------------------------- OperationType
OperationType ==
    {"Commit", "Snapshot", "Describe", "New", "Edit", "Abandon", "Rebase",
     "Squash", "Resolve", "Branch", "BranchDelete", "Bookmark", "Tag",
     "Checkout", "Restore", "Split", "Duplicate", "Undo", "Fetch", "GitFetch",
     "Push", "GitPush", "Clone", "Init", "GitImport", "GitExport", "Move",
     "Diffedit", "Merge", "Unknown"}

modifies_history(ty) ==
    ty \in {"Commit", "Describe", "Edit", "Abandon", "Rebase", "Squash",
            "Split", "Move", "Merge"}

is_remote_operation(ty) ==
    ty \in {"Fetch", "GitFetch", "Push", "GitPush", "Clone", "GitImport",
            "GitExport"}

is_automatic(ty) == ty = "Snapshot"

\* JJOperation::is_snapshot / is_user_initiated
is_snapshot(op) == op.operation_type = "Snapshot"

is_user_initiated(op) == ~is_snapshot(op)

\* ----------------------------------------------------------- strings
\* A command text is a sequence of characters; to_lowercase maps the ASCII
\* capitals to their small letters and leaves every other character alone.
Capitals ==
    <<"A", "B", "C", "D", "E", "F", "G", "H", "I", "J", "K", "L", "M",
      "N", "O", "P", "Q", "R", "S", "T", "U", "V", "W", "X", "Y", "Z">>

Smalls ==
    <<"a", "b", "c", "d", "e", "f", "g", "h", "i", "j", "k", "l", "m",
      "n", "o", "p", "q", "r", "s", "t", "u", "v", "w", "x", "y", "z">>

LowerOf ==
    [c \in {Capitals[k] : k \in 1..26} |->
        Smalls[CHOOSE k \in 1..26 : Capitals[k] = c]]

to_lowercase(s) ==
    [i \in 1..Len(s) |-> IF s[i] \in DOMAIN LowerOf THEN LowerOf[s[i]] ELSE s[i]]

\* str::contains: pat occurs in s as a contiguous run (the empty pattern
\* occurs in every string).
contains(s, pat) ==
    \E k \in 0..(Len(s) - Len(pat)) :
        \A i \in 1..Len(pat) : s[k + i] = pat[i]

\* The strings whose characters matter below: the names from_string knows,
\* the names of the categories as `{:?}` prints them, and other strings
\* callers pass.
Spelled ==
    {"commit", "snapshot", "describe", "new", "edit", "abandon", "rebase",
     "squash", "resolve", "branch", "branch-delete", "bookmark", "tag",
     "checkout", "restore", "split", "duplicate", "undo", "fetch",
     "git-fetch", "push", "git-push", "clone", "init", "git-import",
     "git-export", "move", "diffedit", "merge", "Commit", "Snapshot",
     "Describe", "New", "Edit", "Abandon", "Rebase", "Squash", "Resolve",
     "Branch", "BranchDelete", "Bookmark", "Tag", "Checkout", "Restore",
     "Split", "Duplicate", "Undo", "Fetch", "GitFetch", "Push", "GitPush",
     "Clone", "Init", "GitImport", "GitExport", "Move", "Diffedit", "Merge",
     "Unknown", "git", "status", "-m", "", "SNAPSHOT", "Git-Fetch",
     "BRANCH-DELETE", "unknown_op", "unknown", "branchdelete", "gitpush"}

\* the characters of a string
Chars ==
    [s \in Spelled |->
        CASE s = "commit" -> <<"c", "o", "m", "m", "i", "t">>
          [] s = "snapshot" -> <<"s", "n", "a", "p", "s", "h", "o", "t">>
          [] s = "describe" -> <<"d", "e", "s", "c", "r", "i", "b", "e">>
          [] s = "new" -> <<"n", "e", "w">>
          [] s = "edit" -> <<"e", "d", "i", "t">>
          [] s = "abandon" -> <<"a", "b", "a", "n", "d", "o", "n">>
          [] s = "rebase" -> <<"r", "e", "b", "a", "s", "e">>
          [] s = "squash" -> <<"s", "q", "u", "a", "s", "h">>
          [] s = "resolve" -> <<"r", "e", "s", "o", "l", "v", "e">>
          [] s = "branch" -> <<"b", "r", "a", "n", "c", "h">>
          [] s = "branch-delete" -> <<"b", "r", "a", "n", "c", "h", "-", "d", "e", "l", "e", "t", "e">>
          [] s = "bookmark" -> <<"b", "o", "o", "k", "m", "a", "r", "k">>
          [] s = "tag" -> <<"t", "a", "g">>
          [] s = "checkout" -> <<"c", "h", "e", "c", "k", "o", "u", "t">>
          [] s = "restore" -> <<"r", "e", "s", "t", "o", "r", "e">>
          [] s = "split" -> <<"s", "p", "l", "i", "t">>
          [] s = "duplicate" -> <<"d", "u", "p", "l", "i", "c", "a", "t", "e">>
          [] s = "undo" -> <<"u", "n", "d", "o">>
          [] s = "fetch" -> <<"f", "e", "t", "c", "h">>
          [] s = "git-fetch" -> <<"g", "i", "t", "-", "f", "e", "t", "c", "h">>
          [] s = "push" -> <<"p", "u", "s", "h">>
          [] s = "git-push" -> <<"g", "i", "t", "-", "p", "u", "s", "h">>
          [] s = "clone" -> <<"c", "l", "o", "n", "e">>
          [] s = "init" -> <<"i", "n", "i", "t">>
          [] s = "git-import" -> <<"g", "i", "t", "-", "i", "m", "p", "o", "r", "t">>
          [] s = "git-export" -> <<"g", "i", "t", "-", "e", "x", "p", "o", "r", "t">>
          [] s = "move" -> <<"m", "o", "v", "e">>
          [] s = "diffedit" -> <<"d", "i", "f", "f", "e", "d", "i", "t">>
          [] s = "merge" -> <<"m", "e", "r", "g", "e">>
          [] s = "Commit" -> <<"C", "o", "m", "m", "i", "t">>
          [] s = "Snapshot" -> <<"S", "n", "a", "p", "s", "h", "o", "t">>
          [] s = "Describe" -> <<"D", "e", "s", "c", "r", "i", "b", "e">>
          [] s = "New" -> <<"N", "e", "w">>
          [] s = "Edit" -> <<"E", "d", "i", "t">>
          [] s = "Abandon" -> <<"A", "b", "a", "n", "d", "o", "n">>
          [] s = "Rebase" -> <<"R", "e", "b", "a", "s", "e">>
          [] s = "Squash" -> <<"S", "q", "u", "a", "s", "h">>
          [] s = "Resolve" -> <<"R", "e", "s", "o", "l", "v", "e">>
          [] s = "Branch" -> <<"B", "r", "a", "n", "c", "h">>
          [] s = "BranchDelete" -> <<"B", "r", "a", "n", "c", "h", "D", "e", "l", "e", "t", "e">>
          [] s = "Bookmark" -> <<"B", "o", "o", "k", "m", "a", "r", "k">>
          [] s = "Tag" -> <<"T", "a", "g">>
          [] s = "Checkout" -> <<"C", "h", "e", "c", "k", "o", "u", "t">>
          [] s = "Restore" -> <<"R", "e", "s", "t", "o", "r", "e">>
          [] s = "Split" -> <<"S", "p", "l", "i", "t">>
          [] s = "Duplicate" -> <<"D", "u", "p", "l", "i", "c", "a", "t", "e">>
          [] s = "Undo" -> <<"U", "n", "d", "o">>
          [] s = "Fetch" -> <<"F", "e", "t", "c", "h">>
          [] s = "GitFetch" -> <<"G", "i", "t", "F", "e", "t", "c", "h">>
          [] s = "Push" -> <<"P", "u", "s", "h">>
          [] s = "GitPush" -> <<"G", "i", "t", "P", "u", "s", "h">>
          [] s = "Clone" -> <<"C", "l", "o", "n", "e">>
          [] s = "Init" -> <<"I", "n", "i", "t">>
          [] s = "GitImport" -> <<"G", "i", "t", "I", "m", "p", "o", "r", "t">>
          [] s = "GitExport" -> <<"G", "i", "t", "E", "x", "p", "o", "r", "t">>
          [] s = "Move" -> <<"M", "o", "v", "e">>
          [] s = "Diffedit" -> <<"D", "i", "f", "f", "e", "d", "i", "t">>
          [] s = "Merge" -> <<"M", "e", "r", "g", "e">>
          [] s = "Unknown" -> <<"U", "n", "k", "n", "o", "w", "n">>
          [] s = "git" -> <<"g", "i", "t">>
          [] s = "status" -> <<"s", "t", "a", "t", "u", "s">>
          [] s = "-m" -> <<"-", "m">>
          [] s = "" -> <<>>
          [] s = "SNAPSHOT" -> <<"S", "N", "A", "P", "S", "H", "O", "T">>
          [] s = "Git-Fetch" -> <<"G", "i", "t", "-", "F", "e", "t", "c", "h">>
          [] s = "BRANCH-DELETE" -> <<"B", "R", "A", "N", "C", "H", "-", "D", "E", "L", "E", "T", "E">>
          [] s = "unknown_op" -> <<"u", "n", "k", "n", "o", "w", "n", "_", "o", "p">>
          [] s = "unknown" -> <<"u", "n", "k", "n", "o", "w", "n">>
          [] s = "branchdelete" -> <<"b", "r", "a", "n", "c", "h", "d", "e", "l", "e", "t", "e">>
          [] s = "gitpush" -> <<"g", "i", "t", "p", "u", "s", "h">>]

\* OperationType::as_string: format!("{:?}", self), the name of the variant.
as_string(ty) == Chars[ty]

\* The arms of the match in OperationType::from_string.
FromStringArms ==
    {<<"commit", "Commit">>, <<"snapshot", "Snapshot">>,
     <<"describe", "Describe">>, <<"new", "New">>, <<"edit", "Edit">>,
     <<"abandon", "Abandon">>, <<"rebase", "Rebase">>,
     <<"squash", "Squash">>, <<"resolve", "Resolve">>,
     <<"branch", "Branch">>, <<"branch-delete", "BranchDelete">>,
     <<"bookmark", "Bookmark">>, <<"tag", "Tag">>,
     <<"checkout", "Checkout">>, <<"restore", "Restore">>,
     <<"split", "Split">>, <<"duplicate", "Duplicate">>,
     <<"undo", "Undo">>, <<"fetch", "Fetch">>, <<"git-fetch", "GitFetch">>,
     <<"push", "Push">>, <<"git-push", "GitPush">>, <<"clone", "Clone">>,
     <<"init", "Init">>, <<"git-import", "GitImport">>,
     <<"git-export", "GitExport">>, <<"move", "Move">>,
     <<"diffedit", "Diffedit">>, <<"merge", "Merge">>}

\* Variant: a match on the string as given, without to_lowercase.
FromStringCaseSensitive(s) ==
    IF \E arm \in FromStringArms : Chars[arm[1]] = s
    THEN (CHOOSE arm \in FromStringArms : Chars[arm[1]] = s)[2]
    ELSE "Unknown"

\* OperationType::from_string: match s.to_lowercase().as_str() { .. }
from_string(s) ==
    LET lower == to_lowercase(s)
    IN  IF \E arm \in FromStringArms : Chars[arm[1]] = lower
        THEN (CHOOSE arm \in FromStringArms : Chars[arm[1]] = lower)[2]
        ELSE "Unknown"

\* ------------------------------------------------------------- records
\* Variant: a generator that gives every record the same id.
UuidRepeated(k) == "uuid-1"

\* Uuid::new_v4().to_string() of the k-th id drawn in this process.
Uuid(k) == "uuid-" \o ToString(k)

\* Option<T>
None == <<>>
Some(x) == <<x>>

\* External operation ids that are not ids of this process.
ExtIds == {"op0"}

\* What callers build records from: the arguments of JJOperation::new and of
\* with_type / with_success / with_duration. `operation_id` is a foreign id,
\* or "previous": the id of the record created just before (a caller may pass
\* any string it has).
Inputs ==
    { [operation_id |-> "op0",
       operation_type |-> "Commit", command |-> <<"A", "d", "d">>,
       user |-> "alice", hostname |-> "localhost",
       duration_ms |-> U64(100), success |-> TRUE, error |-> None],
      [operation_id |-> "previous",
       operation_type |-> "Snapshot", command |-> <<"a", "b">>,
       user |-> "bob", hostname |-> "localhost",
       duration_ms |-> U64Max, success |-> FALSE,
       error |-> Some("Network error")] }

\* Variant: a record created without reading the clock.
NewOperationUnstamped(uuid, operation_id, inp, now) ==
    [id |-> uuid,
     operation_id |-> operation_id,
     operation_type |-> inp.operation_type,
     command |-> inp.command,
     user |-> inp.user,
     hostname |-> inp.hostname,
     timestamp |-> 0,
     tags |-> <<>>,
     metadata |-> [key \in {} |-> ""],
     parent_id |-> None,
     duration_ms |-> inp.duration_ms,
     success |-> inp.success,
     error |-> inp.error]

\* JJOperation::new followed by the with_* setters.
NewOperation(uuid, operation_id, inp, now) ==
    [id |-> uuid,
     operation_id |-> operation_id,
     operation_type |-> inp.operation_type,
     command |-> inp.command,
     user |-> inp.user,
     hostname |-> inp.hostname,
     timestamp |-> now,
     tags |-> <<>>,
     metadata |-> [key \in {} |-> ""],
     parent_id |-> None,
     duration_ms |-> inp.duration_ms,
     success |-> inp.success,
     error |-> inp.error]

\* ------------------------------------------------------ iterator helpers
\* Iterator::rev
Rev(s) == [i \in 1..Len(s) |-> s[Len(s) + 1 - i]]

\* Iterator::take(n)
Take(s, n) == IF n >= Len(s) THEN s ELSE SubSeq(s, 1, n)

\* ------------------------------------------- JJOperationLog, as functions
\* The methods of JJOperationLog as functions of the locked Vec `ops`.

\* Variant: a log that inserts at the front of the Vec.
PushFront(ops, operation) == <<operation>> \o ops

\* ops.push(operation)
push(ops, operation) == Append(ops, operation)

\* Variant: a trim that drains one record more than the excess.
DrainOneTooMany(ops, max) ==
    IF Len(ops) > max
    THEN LET excess == Len(ops) - max + 1
         IN  SubSeq(ops, IF excess > Len(ops) THEN Len(ops) + 1 ELSE excess + 1, Len(ops))
    ELSE ops

\* Variant: a trim that looks at the fields: it evicts the oldest failed
\* record, and the oldest record only when none has failed.
DrainFailedFirst(ops, max) ==
    IF Len(ops) > max
    THEN LET failedIdx == {i \in 1..Len(ops) : ~ops[i].success}
             victim == IF failedIdx = {} THEN 1
                       ELSE CHOOSE i \in failedIdx : \A j \in failedIdx : i <= j
         IN  SubSeq(ops, 1, victim - 1) \o SubSeq(ops, victim + 1, Len(ops))
    ELSE ops

\* Variant: a trim that cuts the newest records off.
DrainNewest(ops, max) ==
    IF Len(ops) > max THEN SubSeq(ops, 1, max) ELSE ops

\* if ops.len() > max_entries { ops.drain(0..ops.len() - max_entries) }
drain_excess(ops, max) ==
    IF Len(ops) > max
    THEN LET excess == Len(ops) - max
         IN  SubSeq(ops, excess + 1, Len(ops))
    ELSE ops

\* Variant: the oldest `limit` records, most recent first.
GetRecentTakeThenRev(ops, limit) == Rev(Take(ops, limit))

\* ops.iter().rev().take(limit).cloned().collect()
get_recent(ops, limit) == Take(Rev(ops), limit)

\* Variant: a stale snapshot that misses the newest record.
GetAllButNewest(ops) == IF ops = <<>> THEN ops ELSE SubSeq(ops, 1, Len(ops) - 1)

\* self.operations.lock().unwrap().clone()
get_all(ops) == ops

\* ops.iter().find(|op| op.id == id || op.operation_id == id).cloned()
RECURSIVE FindFrom(_, _, _)
FindFrom(ops, i, id) ==
    IF i > Len(ops) THEN None
    ELSE IF ops[i].id = id \/ ops[i].operation_id = id THEN Some(ops[i])
    ELSE FindFrom(ops, i + 1, id)

\* Variant: the last match instead of the first.
RECURSIVE FindLastFrom(_, _, _)
FindLastFrom(ops, i, id) ==
    IF i < 1 THEN None
    ELSE IF ops[i].id = id \/ ops[i].operation_id = id THEN Some(ops[i])
    ELSE FindLastFrom(ops, i - 1, id)

\* Variant: a lookup that matches `op.id` only.
FindByLocalIdOnly(ops, id) ==
    LET hit == SelectSeq(ops, LAMBDA op : op.id = id)
    IN  IF hit = <<>> THEN None ELSE Some(hit[1])

FindLast(ops, id) == FindLastFrom(ops, Len(ops), id)

find_by_id(ops, id) == FindFrom(ops, 1, id)

\* Result<JJOperation>
Ok(x) == <<"Ok", x>>
Err(kind, text) == <<"Err", kind, text>>

\* self.find_by_id(id).ok_or_else(|| JJError::OperationNotFound(id.to_string()))
get_operation(ops, id) ==
    LET found == find_by_id(ops, id)
    IN  IF found = None THEN Err("OperationNotFound", id) ELSE Ok(found[1])

\* get_by_type (filter_by_type forwards to it)
get_by_type(ops, op_type) ==
    SelectSeq(ops, LAMBDA op : op.operation_type = op_type)

\* Variant: a range that excludes its end.
FilterByDateRangeHalfOpen(ops, start, end) ==
    SelectSeq(ops, LAMBDA op : op.timestamp >= start /\ op.timestamp < end)

\* ops.iter().filter(|op| op.timestamp >= start && op.timestamp <= end)
filter_by_date_range(ops, start, end) ==
    SelectSeq(ops, LAMBDA op : op.timestamp >= start /\ op.timestamp <= end)

filter_by_user(ops, user) == SelectSeq(ops, LAMBDA op : op.user = user)

\* Variant: a search that lowers the command text but not the query.
SearchQueryAsTyped(ops, query) ==
    SelectSeq(ops, LAMBDA op : contains(to_lowercase(op.command), query))

\* ops.iter().filter(|op| op.command.to_lowercase().contains(&query_lower))
search(ops, query) ==
    LET query_lower == to_lowercase(query)
    IN  SelectSeq(ops, LAMBDA op : contains(to_lowercase(op.command), query_lower))

failed_operations(ops) == SelectSeq(ops, LAMBDA op : ~op.success)

history_modifying_operations(ops) ==
    SelectSeq(ops, LAMBDA op : modifies_history(op.operation_type))

\* Variant: the remote operations, newest first.
RemoteOperationsNewestFirst(ops) ==
    SelectSeq(Rev(ops), LAMBDA op : is_remote_operation(op.operation_type))

remote_operations(ops) ==
    SelectSeq(ops, LAMBDA op : is_remote_operation(op.operation_type))

\* Variant: the limit applied before the filter.
GetUserOperationsCapFirst(ops, limit) ==
    SelectSeq(Take(Rev(ops), limit), is_user_initiated)

\* ops.iter().rev().filter(|op| op.is_user_initiated()).take(limit)
get_user_operations(ops, limit) ==
    Take(SelectSeq(Rev(ops), is_user_initiated), limit)

count(ops) == Len(ops)

is_empty(ops) == Len(ops) = 0

\* Variant: a clear that leaves the newest record in place.
ClearKeepsNewest(ops) == IF ops = <<>> THEN <<>> ELSE <<ops[Len(ops)]>>

\* self.operations.lock().unwrap().clear()
clear(ops) == <<>>

\* --------------------------------------------------------- statistics
\* Variant: statistics that start with an entry for Unknown.
StatsDefaultWithUnknown ==
    [total |-> 0, successful |-> 0, failed |-> 0,
     by_type |-> [ty \in {"Unknown"} |-> 0],
     total_duration_ms |-> U64Zero,
     avg_duration_ms |-> U64Zero,
     max_duration_ms |-> U64Zero]

\* OperationStatistics::default()
StatsDefault ==
    [total |-> 0, successful |-> 0, failed |-> 0,
     by_type |-> [ty \in {} |-> 0],
     total_duration_ms |-> U64Zero,
     avg_duration_ms |-> U64Zero,
     max_duration_ms |-> U64Zero]

\* Variant: an entry that is set to 1 instead of incremented.
EntryOverwrite(m, ty) ==
    [k \in DOMAIN m \cup {ty} |-> IF k = ty THEN 1 ELSE m[k]]

\* *stats.by_type.entry(ty).or_insert(0) += 1
EntryIncrement(m, ty) ==
    [k \in DOMAIN m \cup {ty} |->
        IF k = ty THEN (IF ty \in DOMAIN m THEN m[ty] ELSE 0) + 1 ELSE m[k]]

\* Variant: an iteration that skips a record without a measured duration
\* altogether.
StatsStepSkipsUnmeasured(stats, op, overflow_checks) ==
    LET counted == [stats EXCEPT
                      !.by_type = EntryIncrement(@, op.operation_type),
                      !.successful = IF op.success THEN @ + 1 ELSE @,
                      !.failed = IF op.success THEN @ ELSE @ + 1]
        sum == U64AddWide(stats.total_duration_ms, op.duration_ms)
    IN  IF U64Gt(op.duration_ms, U64Zero)
        THEN IF sum.carry > 0 /\ overflow_checks
             THEN [panicked |-> TRUE, stats |-> counted]
             ELSE [panicked |-> FALSE,
                   stats |-> [counted EXCEPT
                     !.total_duration_ms = sum.low,
                     !.max_duration_ms =
                         IF U64Gt(op.duration_ms, @) THEN op.duration_ms ELSE @]]
        ELSE [panicked |-> FALSE, stats |-> stats]

\* Variant: an iteration that keeps the latest measured duration as the
\* maximum.
StatsStepLatestAsMax(stats, op, overflow_checks) ==
    LET counted == [stats EXCEPT
                      !.by_type = EntryIncrement(@, op.operation_type),
                      !.successful = IF op.success THEN @ + 1 ELSE @,
                      !.failed = IF op.success THEN @ ELSE @ + 1]
        sum == U64AddWide(stats.total_duration_ms, op.duration_ms)
    IN  IF U64Gt(op.duration_ms, U64Zero)
        THEN IF sum.carry > 0 /\ overflow_checks
             THEN [panicked |-> TRUE, stats |-> counted]
             ELSE [panicked |-> FALSE,
                   stats |-> [counted EXCEPT
                     !.total_duration_ms = sum.low,
                     !.max_duration_ms = op.duration_ms]]
        ELSE [panicked |-> FALSE, stats |-> counted]

\* One iteration of the loop of statistics() over `op`. `overflow_checks` is
\* the build's setting: with it an overflowing u64 `+=` panics, without it
\* the sum wraps. The result says whether the iteration panicked.
StatsStep(stats, op, overflow_checks) ==
    LET counted == [stats EXCEPT
                      !.by_type = EntryIncrement(@, op.operation_type),
                      !.successful = IF op.success THEN @ + 1 ELSE @,
                      !.failed = IF op.success THEN @ ELSE @ + 1]
        sum == U64AddWide(stats.total_duration_ms, op.duration_ms)
    IN  IF U64Gt(op.duration_ms, U64Zero)
        THEN IF sum.carry > 0 /\ overflow_checks
             THEN [panicked |-> TRUE, stats |-> counted]
             ELSE [panicked |-> FALSE,
                   stats |-> [counted EXCEPT
                     !.total_duration_ms = sum.low,
                     !.max_duration_ms =
                         IF U64Gt(op.duration_ms, @) THEN op.duration_ms ELSE @]]
        ELSE [panicked |-> FALSE, stats |-> counted]

RECURSIVE StatsLoop(_, _, _, _)
StatsLoop(ops, i, stats, overflow_checks) ==
    IF i > Len(ops) THEN [panicked |-> FALSE, stats |-> stats]
    ELSE LET next == StatsStep(stats, ops[i], overflow_checks)
         IN  IF next.panicked THEN next
             ELSE StatsLoop(ops, i + 1, next.stats, overflow_checks)

\* Variant: statistics whose average divides by the number of records with
\* a measured duration.
StatisticsAvgOverMeasured(ops, overflow_checks) ==
    LET looped == StatsLoop(ops, 1, StatsDefault, overflow_checks)
        stats == [looped.stats EXCEPT !.total = Len(ops)]
        measured == Len(SelectSeq(ops, LAMBDA op : U64Gt(op.duration_ms, U64Zero)))
    IN  IF looped.panicked THEN looped
        ELSE IF measured > 0 /\ U64Gt(stats.total_duration_ms, U64Zero)
        THEN [panicked |-> FALSE,
              stats |-> [stats EXCEPT !.avg_duration_ms =
                           U64DivSmall(stats.total_duration_ms, measured)]]
        ELSE [panicked |-> FALSE, stats |-> stats]

\* JJOperationLog::statistics: [panicked, stats]
statistics(ops, overflow_checks) ==
    LET looped == StatsLoop(ops, 1, StatsDefault, overflow_checks)
        stats == [looped.stats EXCEPT !.total = Len(ops)]
    IN  IF looped.panicked THEN looped
        ELSE IF stats.total > 0 /\ U64Gt(stats.total_duration_ms, U64Zero)
        THEN [panicked |-> FALSE,
              stats |-> [stats EXCEPT !.avg_duration_ms =
                           U64DivSmall(stats.total_duration_ms, stats.total)]]
        ELSE [panicked |-> FALSE, stats |-> stats]

\* JJOperationLog::avg_duration_ms: the u64 sum of the durations, first to
\* last; an overflowing sum panics in a build with overflow checks and wraps
\* in one without.
RECURSIVE SumFrom(_, _, _, _)
SumFrom(ops, i, total, overflow_checks) ==
    IF i > Len(ops) THEN [panicked |-> FALSE, total |-> total]
    ELSE LET sum == U64AddWide(total, ops[i].duration_ms)
         IN  IF sum.carry > 0 /\ overflow_checks
             THEN [panicked |-> TRUE, total |-> total]
             ELSE SumFrom(ops, i + 1, sum.low, overflow_checks)

\* The f64 quotient total / len is kept as the pair of the two, 0.0 as
\* <<0, 1>>.
avg_duration_ms(ops, overflow_checks) ==
    IF ops = <<>> THEN [panicked |-> FALSE, value |-> <<U64Zero, 1>>]
    ELSE LET summed == SumFrom(ops, 1, U64Zero, overflow_checks)
         IN  [panicked |-> summed.panicked, value |-> <<summed.total, Len(ops)>>]

\* JJOperationLog::success_rate, as the pair successful / len.
success_rate(ops) ==
    IF ops = <<>> THEN <<0, 1>>
    ELSE <<Len(SelectSeq(ops, LAMBDA op : op.success)), Len(ops)>>

\* The threads that call a JJWrapper and its clones.
Threads == {"t1", "t2"}

\* a thread that is in no JJWrapper call
Idle ==
    [op |-> "none", at |-> 0, operation |-> None, args |-> <<>>,
     result |-> None, seen |-> <<>>]

\* ---------------------------------------------------------------- state
\* Threads are not named: a record that has been built belongs to the thread
\* that built it, and every add_operation call is a process of its own with
\* two steps (push, then trim and unlock). Queries and clear() hold the lock
\* for one step.
VARIABLES
    operations,   \* the Vec<JJOperation> inside Arc<Mutex<..>>
    max_entries,  \* capacity, fixed by JJOperationLog::new
    locked,       \* some thread holds the Mutex
    poisoned,     \* the Mutex is poisoned: a thread panicked holding it
    built,        \* records built and not yet passed to add_operation
    pushed,       \* records of the add_operation calls that have pushed and
                  \* not yet trimmed and returned
    nextUuid,     \* ids drawn from Uuid::new_v4 so far, plus one
    clock,        \* Utc::now()
    appended,     \* history: the ids of the records pushed since the latest
                  \* clear(), in push order, each with the ids whose
                  \* add_operation had returned by then
    window,       \* history: the latest max_entries records pushed since the
                  \* latest clear(), in push order
    cleared,      \* history: the records that clear() calls removed, as
                  \* [id, later]: `later` counts the pushes made after the
                  \* record's own, up to max_entries
    last,         \* the call that completed in the latest step and its result
    operation_log,\* JJWrapper's Mutex around the log: who holds it, and
                  \* whether it is poisoned
    in_call,      \* the JJWrapper call each thread is in, and how far it is
    heap,         \* the cells behind Arcs, by address
    handles       \* the JJOperationLog and JJWrapper values callers hold

vars == <<operations, max_entries, locked, poisoned, built, pushed, nextUuid,
          clock, appended, window, cleared, last, operation_log, in_call,
          heap, handles>>

\* A completed call and what it returned, or that it panicked.
Returned(op, arg, value) ==
    [op |-> op, arg |-> arg, panicked |-> FALSE, value |-> value]

PanickedCall(op, arg) ==
    [op |-> op, arg |-> arg, panicked |-> TRUE, value |-> "none"]

NoCall == [op |-> "none", arg |-> "none", panicked |-> FALSE, value |-> "none"]

\* Variant: a log whose methods do not wait for the Mutex.
CanLockUnguarded == TRUE

\* self.operations.lock(): blocks until no thread holds the Mutex.
CanLock == ~locked

\* Variant: a query that moves the records out of the Vec.
StoreAfterQueryDrained(ops) == <<>>

\* What a query leaves in the Vec: it iterates over `ops.iter()` and clones
\* what it returns.
StoreAfterQuery(ops) == ops

\* ids of the records pushed since the latest clear() whose add_operation
\* has returned
ReturnedIds ==
    {appended[i].id : i \in 1..Len(appended)} \ {op.id : op \in pushed}

\* The last k elements of a sequence.
LastK(s, k) == IF Len(s) <= k THEN s ELSE SubSeq(s, Len(s) - k + 1, Len(s))

Init ==
    /\ operations = <<>>
    /\ max_entries \in 0..MaxCap
    /\ locked = FALSE
    /\ poisoned = FALSE
    /\ built = {}
    /\ pushed = {}
    /\ nextUuid = 1
    /\ clock = 1
    /\ appended = <<>>
    /\ window = <<>>
    /\ cleared = {}
    /\ last = NoCall
    /\ operation_log = [holder |-> "none", poisoned |-> FALSE]
    /\ in_call = [t \in Threads |-> Idle]
    /\ heap = <<>>
    /\ handles = <<>>

\* The operation_id string an input stands for.
OperationIdOf(inp) ==
    IF inp.operation_id = "previous"
    THEN (IF nextUuid > 1 THEN Uuid(nextUuid - 1) ELSE "op0")
    ELSE inp.operation_id

\* A thread builds a record: JJOperation::new(operation_id, command, user,
\* hostname) and the with_* setters.
Build ==
    /\ nextUuid <= MaxOps
    /\ Cardinality(built) < MaxBuilt
    /\ \E inp \in Inputs :
          built' = built \cup
                     {NewOperation(Uuid(nextUuid), OperationIdOf(inp), inp, clock)}
    /\ nextUuid' = nextUuid + 1
    /\ clock' = clock + 1
    /\ last' = NoCall
    /\ UNCHANGED <<operations, max_entries, locked, poisoned, pushed, appended,
                   window, cleared>>
    /\ UNCHANGED <<operation_log, in_call, heap, handles>>

\* add_operation(operation), first half: lock the Mutex and push the record.
\* On a poisoned Mutex lock().unwrap() panics and nothing is pushed.
AddPush(operation) ==
    /\ operation \in built
    /\ CanLock
    /\ built' = built \ {operation}
    /\ IF poisoned
       THEN /\ last' = PanickedCall("add_operation", operation.id)
            /\ UNCHANGED <<operations, locked, pushed, appended, window, cleared>>
       ELSE /\ operations' = push(operations, operation)
            /\ locked' = TRUE
            /\ pushed' = pushed \cup {operation}
            /\ appended' = Append(appended, [id |-> operation.id, after |-> ReturnedIds])
            /\ window' = LastK(Append(window, operation), max_entries)
            /\ cleared' = {[c EXCEPT !.later = IF @ < max_entries THEN @ + 1 ELSE @] :
                              c \in cleared}
            /\ last' = NoCall
    /\ UNCHANGED <<max_entries, poisoned, nextUuid, clock>>
    /\ UNCHANGED <<operation_log, in_call, heap, handles>>

\* add_operation(operation), second half: trim to max_entries, unlock and
\* return.
AddTrim(operation) ==
    /\ operation \in pushed
    /\ operations' = drain_excess(operations, max_entries)
    /\ locked' = FALSE
    /\ pushed' = pushed \ {operation}
    /\ last' = Returned("add_operation", operation.id, "unit")
    /\ UNCHANGED <<max_entries, poisoned, built, nextUuid, clock, appended,
                   window, cleared>>
    /\ UNCHANGED <<operation_log, in_call, heap, handles>>

\* JJOperationLog::clear
Clear ==
    /\ CanLock
    /\ IF poisoned
       THEN /\ last' = PanickedCall("clear", "none")
            /\ UNCHANGED <<operations, appended, window, cleared>>
       ELSE /\ operations' = clear(operations)
            /\ appended' = <<>>
            /\ window' = <<>>
            /\ cleared' = cleared \cup
                  {[id |-> operations[i].id, later |-> Len(operations) - i] :
                     i \in 1..Len(operations)}
            /\ last' = Returned("clear", "none", "unit")
    /\ UNCHANGED <<max_entries, locked, poisoned, built, pushed, nextUuid, clock>>
    /\ UNCHANGED <<operation_log, in_call, heap, handles>>

\* A query: lock, compute `value` from the Vec, unlock.
Query(op, arg, value) ==
    /\ CanLock
    /\ IF poisoned
       THEN /\ last' = PanickedCall(op, arg)
            /\ UNCHANGED operations
       ELSE /\ last' = Returned(op, arg, value)
            /\ operations' = StoreAfterQuery(operations)
    /\ UNCHANGED <<max_entries, locked, poisoned, built, pushed, nextUuid, clock,
                   appended, window, cleared>>
    /\ UNCHANGED <<operation_log, in_call, heap, handles>>

\* ------------------------------------------------------------- queries
\* The arguments queries are called with.
QueryIds == ExtIds \cup {Uuid(k) : k \in 1..MaxOps}

QueryTypes == {"Commit", "Snapshot", "Push"}

QueryUsers == {"alice", "bob"}

QueryTexts == {<<"D", "D">>, <<"B">>, <<>>}

\* (start, end) pairs: a range, a single instant, an empty range
QueryRanges == {<<1, 2>>, <<2, 2>>, <<2, 1>>}

GetRecent ==
    \E limit \in 0..MaxLimit :
        Query("get_recent", limit, get_recent(operations, limit))

GetAll == Query("get_all", "none", get_all(operations))

FindById ==
    \E id \in QueryIds : Query("find_by_id", id, find_by_id(operations, id))

GetOperation ==
    \E id \in QueryIds :
        Query("get_operation", id, get_operation(operations, id))

GetByType ==
    \E ty \in QueryTypes :
        Query("get_by_type", ty, get_by_type(operations, ty))

FilterByDateRange ==
    \E range \in QueryRanges :
        Query("filter_by_date_range", range,
              filter_by_date_range(operations, range[1], range[2]))

FilterByUser ==
    \E user \in QueryUsers :
        Query("filter_by_user", user, filter_by_user(operations, user))

Search ==
    \E query \in QueryTexts : Query("search", query, search(operations, query))

FailedOperations ==
    Query("failed_operations", "none", failed_operations(operations))

HistoryModifyingOperations ==
    Query("history_modifying_operations", "none",
          history_modifying_operations(operations))

RemoteOperations ==
    Query("remote_operations", "none", remote_operations(operations))

GetUserOperations ==
    \E limit \in 0..MaxLimit :
        Query("get_user_operations", limit,
              get_user_operations(operations, limit))

Count == Query("count", "none", count(operations))

IsEmpty == Query("is_empty", "none", is_empty(operations))

\* statistics(): a query whose u64 sum can overflow. What then happens is
\* the build's choice: a panic (overflow checks on), which unwinds through
\* the MutexGuard and poisons the Mutex, or a wrapped sum (checks off).
Statistics ==
    /\ CanLock
    /\ IF poisoned
       THEN /\ last' = PanickedCall("statistics", "none")
            /\ UNCHANGED <<operations, poisoned>>
       ELSE \E overflow_checks \in BOOLEAN :
              LET r == statistics(operations, overflow_checks)
              IN  IF r.panicked
                  THEN /\ last' = PanickedCall("statistics", "none")
                       /\ poisoned' = TRUE
                       /\ UNCHANGED operations
                  ELSE /\ last' = Returned("statistics", "none", r.stats)
                       /\ operations' = StoreAfterQuery(operations)
                       /\ UNCHANGED poisoned
    /\ UNCHANGED <<max_entries, locked, built, pushed, nextUuid, clock, appended,
                   window, cleared>>
    /\ UNCHANGED <<operation_log, in_call, heap, handles>>

Next ==
    \/ Build
    \/ \E operation \in built : AddPush(operation)
    \/ \E operation \in pushed : AddTrim(operation)
    \/ Clear
    \/ GetRecent
    \/ GetAll
    \/ FindById
    \/ GetOperation
    \/ GetByType
    \/ FilterByDateRange
    \/ FilterByUser
    \/ Search
    \/ FailedOperations
    \/ HistoryModifyingOperations
    \/ RemoteOperations
    \/ GetUserOperations
    \/ Count
    \/ IsEmpty
    \/ Statistics

Spec == Init /\ [][Next]_vars

\* ------------------------------------------------- queries on a given log
\* The queries and statistics() are functions of the stored Vec alone. To
\* examine them over more kinds of records than the threads above append, a
\* second specification starts from a log that single-threaded callers have
\* filled, and takes query steps only.

\* Records as callers build them, with the instant at which they were built.
\* The kinds cover a history-modifying, a remote and an automatic type, both
\* outcomes, durations that are zero, ordinary and u64::MAX, and command
\* texts in mixed case.
StoredInputs ==
    { [operation_id |-> "op0", operation_type |-> "Commit",
       command |-> <<"A", "d", "d">>, user |-> "alice", hostname |-> "localhost",
       duration_ms |-> U64(100), success |-> TRUE, error |-> None,
       timestamp |-> 1],
      [operation_id |-> "op0", operation_type |-> "Push",
       command |-> <<"a", "D", "d", "x">>, user |-> "bob", hostname |-> "localhost",
       duration_ms |-> U64(200), success |-> FALSE,
       error |-> Some("Network error"), timestamp |-> 2],
      [operation_id |-> "op0", operation_type |-> "Snapshot",
       command |-> <<"a", "b">>, user |-> "bob", hostname |-> "localhost",
       duration_ms |-> U64(300), success |-> TRUE, error |-> None,
       timestamp |-> 3],
      [operation_id |-> "op0", operation_type |-> "Commit",
       command |-> <<"x">>, user |-> "alice", hostname |-> "localhost",
       duration_ms |-> U64Zero, success |-> TRUE, error |-> None,
       timestamp |-> 2],
      [operation_id |-> "op0", operation_type |-> "Describe",
       command |-> <<"X", "b">>, user |-> "alice", hostname |-> "localhost",
       duration_ms |-> U64Max, success |-> FALSE,
       error |-> Some("Network error"), timestamp |-> 1] }

\* The log after add_operation calls, made one after the other, of records
\* built from `choice`; max_entries is large enough to keep them all.
StoredLog(choice) ==
    [i \in DOMAIN choice |->
        NewOperation(Uuid(i), choice[i].operation_id, choice[i],
                     choice[i].timestamp)]

QueryInit ==
    /\ \E n \in 0..MaxStored :
          \E choice \in [1..n -> StoredInputs] :
              /\ operations = StoredLog(choice)
              /\ window = StoredLog(choice)
              /\ appended = [i \in 1..n |->
                               [id |-> Uuid(i), after |-> {Uuid(j) : j \in 1..(i - 1)}]]
              /\ nextUuid = n + 1
    /\ max_entries = MaxStored
    /\ locked = FALSE
    /\ poisoned = FALSE
    /\ built = {}
    /\ pushed = {}
    /\ clock = 4
    /\ cleared = {}
    /\ last = NoCall
    /\ operation_log = [holder |-> "none", poisoned |-> FALSE]
    /\ in_call = [t \in Threads |-> Idle]
    /\ heap = <<>>
    /\ handles = <<>>

QueryNext ==
    \/ GetAll
    \/ Count
    \/ GetByType
    \/ FilterByDateRange
    \/ FilterByUser
    \/ Search
    \/ FailedOperations
    \/ HistoryModifyingOperations
    \/ RemoteOperations
    \/ GetUserOperations
    \/ Statistics

QuerySpec == QueryInit /\ [][QueryNext]_vars

\* ------------------------------------------------------------ JJWrapper
\* Variant: a classifier that takes a lone "git" for a fetch.
DetectGitAloneAsFetch(args) ==
    IF args = <<>> THEN "Unknown"
    ELSE CASE args[1] = "describe" -> "Describe"
           [] args[1] = "new" -> "New"
           [] args[1] = "edit" -> "Edit"
           [] args[1] = "abandon" -> "Abandon"
           [] args[1] = "rebase" -> "Rebase"
           [] args[1] = "squash" -> "Squash"
           [] args[1] = "resolve" -> "Resolve"
           [] args[1] = "branch" -> "Branch"
           [] args[1] = "bookmark" -> "Bookmark"
           [] args[1] = "git" /\ (Len(args) = 1 \/ args[2] = "fetch") -> "GitFetch"
           [] args[1] = "git" /\ Len(args) > 1 /\ args[2] = "push" -> "GitPush"
           [] args[1] = "undo" -> "Undo"
           [] args[1] = "restore" -> "Restore"
           [] OTHER -> "Unknown"

\* JJWrapper::detect_operation_type: the match on args[0], arm by arm.
detect_operation_type(args) ==
    IF args = <<>> THEN "Unknown"
    ELSE CASE args[1] = "describe" -> "Describe"
           [] args[1] = "new" -> "New"
           [] args[1] = "edit" -> "Edit"
           [] args[1] = "abandon" -> "Abandon"
           [] args[1] = "rebase" -> "Rebase"
           [] args[1] = "squash" -> "Squash"
           [] args[1] = "resolve" -> "Resolve"
           [] args[1] = "branch" -> "Branch"
           [] args[1] = "bookmark" -> "Bookmark"
           [] args[1] = "git" /\ Len(args) > 1 /\ args[2] = "fetch" -> "GitFetch"
           [] args[1] = "git" /\ Len(args) > 1 /\ args[2] = "push" -> "GitPush"
           [] args[1] = "undo" -> "Undo"
           [] args[1] = "restore" -> "Restore"
           [] OTHER -> "Unknown"

\* Tokens of the command lines the classifier is called with: the
\* subcommands it knows, subcommands of jj it has no arm for, an option, and
\* the empty string.
ArgTokens ==
    {"describe", "new", "edit", "abandon", "rebase", "squash", "resolve",
     "branch", "bookmark", "git", "undo", "restore",
     "fetch", "push", "commit", "status", "Describe", "-m", ""}

\* Tokens that follow the subcommand: the two the classifier looks for after
\* "git", and others it has to tell from them.
RestTokens == {"fetch", "push", "Push", "describe", ""}

\* the command lines of up to MaxArgs tokens
ArgSeqs ==
    {args \in UNION {[1..n -> ArgTokens \cup RestTokens] : n \in 0..MaxArgs} :
        \A i \in 2..Len(args) : args[i] \in RestTokens}

\* A caller classifies a command line.
DetectOperationType ==
    /\ \E args \in ArgSeqs :
          last' = Returned("detect_operation_type", args, detect_operation_type(args))
    /\ UNCHANGED <<operations, max_entries, locked, poisoned, built, pushed,
                   nextUuid, clock, appended, window, cleared>>
    /\ UNCHANGED <<operation_log, in_call, heap, handles>>

\* JJOperation::operation_type_str (the getter of the bindings).
operation_type_str(operation) == as_string(operation.operation_type)

\* JJOperation::set_operation_type (the setter of the bindings).
set_operation_type(operation, type_str) ==
    [operation EXCEPT !.operation_type = from_string(type_str)]

\* The strings callers hand to from_string.
NameInputs == Spelled

\* A caller parses the name of a category.
FromString ==
    /\ \E s \in NameInputs :
          last' = Returned("from_string", s, from_string(Chars[s]))
    /\ UNCHANGED <<operations, max_entries, locked, poisoned, built, pushed,
                   nextUuid, clock, appended, window, cleared>>
    /\ UNCHANGED <<operation_log, in_call, heap, handles>>

\* A caller reads the category of a record through the getter and writes the
\* string back through the setter.
SetOperationType ==
    /\ \E ty \in OperationType, inp \in Inputs :
          LET operation ==
                  [NewOperation(Uuid(1), "op0", inp, clock)
                      EXCEPT !.operation_type = ty]
              after == set_operation_type(operation, operation_type_str(operation))
          IN  last' = Returned("set_operation_type", operation, after)
    /\ UNCHANGED <<operations, max_entries, locked, poisoned, built, pushed,
                   nextUuid, clock, appended, window, cleared>>
    /\ UNCHANGED <<operation_log, in_call, heap, handles>>

ClassifierNext ==
    \/ DetectOperationType
    \/ FromString
    \/ SetOperationType

ClassifierSpec == Init /\ [][ClassifierNext]_vars

\* --------------------------------------------------- JJOperationBuilder
\* JJOperationBuilder::default(): the struct derives Default, so every Option
\* is None, the collections are empty, duration_ms is 0 and success is false.
BuilderDefault ==
    [operation_id |-> None, operation_type |-> None, command |-> None,
     user |-> None, hostname |-> None, tags |-> <<>>,
     metadata |-> [key \in {} |-> ""], parent_id |-> None,
     duration_ms |-> U64Zero, success |-> FALSE, error |-> None]

\* The setter calls a caller makes on a builder, with their arguments.
BuilderCalls ==
    { [method |-> "operation_id", arg |-> "op0"],
      [method |-> "operation_type", arg |-> "Commit"],
      [method |-> "command", arg |-> <<"A", "d", "d">>],
      [method |-> "user", arg |-> "alice"],
      [method |-> "hostname", arg |-> "localhost"],
      [method |-> "tag", arg |-> "t1"],
      [method |-> "tag", arg |-> "t2"],
      [method |-> "add_metadata", arg |-> <<"key", "value">>],
      [method |-> "parent_id", arg |-> "op0"],
      [method |-> "duration_ms", arg |-> U64(100)],
      [method |-> "failed", arg |-> "Network error"] }

\* One setter of JJOperationBuilder applied to the builder b.
ApplyCall(b, call) ==
    CASE call.method = "operation_id" -> [b EXCEPT !.operation_id = Some(call.arg)]
      [] call.method = "operation_type" -> [b EXCEPT !.operation_type = Some(call.arg)]
      [] call.method = "command" -> [b EXCEPT !.command = Some(call.arg)]
      [] call.method = "user" -> [b EXCEPT !.user = Some(call.arg)]
      [] call.method = "hostname" -> [b EXCEPT !.hostname = Some(call.arg)]
      [] call.method = "tag" -> [b EXCEPT !.tags = Append(@, call.arg)]
      [] call.method = "add_metadata" ->
            [b EXCEPT !.metadata =
                [key \in DOMAIN @ \cup {call.arg[1]} |->
                    IF key = call.arg[1] THEN call.arg[2] ELSE @[key]]]
      [] call.method = "parent_id" -> [b EXCEPT !.parent_id = Some(call.arg)]
      [] call.method = "duration_ms" -> [b EXCEPT !.duration_ms = call.arg]
      [] call.method = "failed" ->
            [b EXCEPT !.success = FALSE, !.error = Some(call.arg)]

\* JJOperation::builder() followed by the setter calls, first to last.
RECURSIVE BuilderAfter(_)
BuilderAfter(calls) ==
    IF calls = <<>> THEN BuilderDefault
    ELSE ApplyCall(BuilderAfter(SubSeq(calls, 1, Len(calls) - 1)), calls[Len(calls)])

\* Option::unwrap_or
unwrap_or(opt, default) == IF opt = None THEN default ELSE opt[1]

\* JJOperationBuilder::build: uuid is the fresh local id, spare the uuid
\* generated for operation_id when none was set, now the clock reading. The
\* default String is the empty string (the empty sequence for command, whose
\* characters the model keeps).
build(b, uuid, spare, now) ==
    [id |-> uuid,
     operation_id |-> unwrap_or(b.operation_id, spare),
     operation_type |-> unwrap_or(b.operation_type, "Unknown"),
     command |-> unwrap_or(b.command, <<>>),
     user |-> unwrap_or(b.user, ""),
     hostname |-> unwrap_or(b.hostname, ""),
     timestamp |-> now,
     tags |-> b.tags,
     metadata |-> b.metadata,
     parent_id |-> b.parent_id,
     duration_ms |-> b.duration_ms,
     success |-> b.success,
     error |-> b.error]

\* JJOperation::add_tag: if !self.tags.contains(&tag) { self.tags.push(tag) }
add_tag(operation, tag) ==
    IF \E i \in 1..Len(operation.tags) : operation.tags[i] = tag
    THEN operation
    ELSE [operation EXCEPT !.tags = Append(@, tag)]

\* the sequences of up to MaxCalls setter calls
CallSeqs == UNION {[1..n -> BuilderCalls] : n \in 0..MaxCalls}

\* the tags add_tag is called with
Tags == {"t1", "t2"}

\* A caller makes a record with the builder: builder(), setters, build().
\* build() draws the local id, and a second uuid when operation_id was not
\* set.
BuilderBuild ==
    /\ nextUuid = 1
    /\ \E calls \in CallSeqs :
          LET b == BuilderAfter(calls)
              operation == build(b, Uuid(nextUuid), Uuid(nextUuid + 1), clock)
          IN  /\ built' = built \cup {operation}
              /\ nextUuid' = IF b.operation_id = None THEN nextUuid + 2
                             ELSE nextUuid + 1
              /\ last' = Returned("build", calls, operation)
    /\ clock' = clock + 1
    /\ UNCHANGED <<operations, max_entries, locked, poisoned, pushed, appended,
                   window, cleared>>
    /\ UNCHANGED <<operation_log, in_call, heap, handles>>

\* The caller adds a tag to the record it holds.
AddTag ==
    /\ \E operation \in built, tag \in Tags :
          /\ built' = (built \ {operation}) \cup {add_tag(operation, tag)}
          /\ last' = Returned("add_tag", <<operation, tag>>, add_tag(operation, tag))
    /\ UNCHANGED <<operations, max_entries, locked, poisoned, pushed, nextUuid,
                   clock, appended, window, cleared>>
    /\ UNCHANGED <<operation_log, in_call, heap, handles>>

\* One record from the builder into the log, and what the log then says
\* about it.
BuilderNext ==
    \/ BuilderBuild
    \/ AddTag
    \/ \E operation \in built : AddPush(operation)
    \/ \E operation \in pushed : AddTrim(operation)
    \/ GetAll
    \/ FailedOperations
    \/ Statistics

BuilderSpec == Init /\ [][BuilderNext]_vars

\* ------------------------------------------------------ cloned records
\* JJOperation derives Clone and add_operation takes its record by value: a
\* caller that keeps a record passes add_operation(operation.clone()). The
\* first half of that call: as AddPush, but the caller still holds the
\* record.
AddPushClone(operation) ==
    /\ operation \in built
    /\ Len(appended) < MaxOps
    /\ CanLock
    /\ IF poisoned
       THEN /\ last' = PanickedCall("add_operation", operation.id)
            /\ UNCHANGED <<operations, locked, pushed, appended, window, cleared>>
       ELSE /\ operations' = push(operations, operation)
            /\ locked' = TRUE
            /\ pushed' = pushed \cup {operation}
            /\ appended' = Append(appended, [id |-> operation.id, after |-> ReturnedIds])
            /\ window' = LastK(Append(window, operation), max_entries)
            /\ cleared' = {[c EXCEPT !.later = IF @ < max_entries THEN @ + 1 ELSE @] :
                              c \in cleared}
            /\ last' = NoCall
    /\ UNCHANGED <<max_entries, poisoned, built, nextUuid, clock>>
    /\ UNCHANGED <<operation_log, in_call, heap, handles>>

\* Callers that create records and append them, or copies of them.
CallerNext ==
    \/ Build
    \/ \E operation \in built : AddPushClone(operation)
    \/ \E operation \in built : AddPush(operation)
    \/ \E operation \in pushed : AddTrim(operation)
    \/ GetAll

CallerSpec == Init /\ [][CallerNext]_vars

\* ------------------------------------------------------------ AgentDBSync
\* AgentDBEpisode::from_operation: the episode holds a clone of the record.
from_operation(op, session_id, agent_id) ==
    [session_id |-> session_id,
     task |-> op.command,
     agent_id |-> agent_id,
     input |-> None,
     output |-> None,
     critique |-> None,
     success |-> TRUE,
     reward |-> 1,
     latency_ms |-> None,
     tokens_used |-> None,
     operation |-> Some(op),
     timestamp |-> op.timestamp]

\* AgentDBSync::store_episode on a sink whose `enabled` field is `enabled`;
\* `serializes` is whether serde_json::to_string_pretty succeeds. What the
\* enabled sink prints or appends to the AGENTDB_SYNC_FILE is outside the
\* process.
store_episode(enabled, episode, serializes) ==
    IF ~enabled THEN Ok("unit")
    ELSE IF ~serializes THEN Err("SerializationError", "episode")
    ELSE Ok("unit")

\* AgentDBSync::sync_operation
sync_operation(enabled, op, session_id, agent_id, serializes) ==
    IF ~enabled THEN Ok("unit")
    ELSE store_episode(enabled, from_operation(op, session_id, agent_id), serializes)

\* AgentDBSync::batch_sync_operations: entries are synced first to last and
\* the first failure is returned (`?`); serializes[i] is the outcome for the
\* i-th entry.
RECURSIVE BatchFrom(_, _, _, _)
BatchFrom(enabled, entries, serializes, i) ==
    IF i > Len(entries) THEN Ok("unit")
    ELSE LET r == sync_operation(enabled, entries[i], "session", "agent",
                                 serializes[i])
         IN  IF r[1] = "Err" THEN r
             ELSE BatchFrom(enabled, entries, serializes, i + 1)

batch_sync_operations(enabled, entries, serializes) ==
    IF ~enabled THEN Ok("unit") ELSE BatchFrom(enabled, entries, serializes, 1)

\* Variant: a sink that puts the record it is told about into the log again.
StoreAfterSyncLogged(ops, op) == Append(ops, op)

\* What a sink call leaves in the log: AgentDBSync has no reference to the
\* log, and the record reaches it as a shared reference.
StoreAfterSync(ops, op) == ops

\* The records a caller can tell the sink about: those it holds and those
\* the log has returned to it.
SinkRecords == built \cup {operations[i] : i \in 1..Len(operations)}

\* A call of the sink: it takes no lock of the log, so it can run at any
\* time, also while add_operation is under way in another thread.
Sink(op, arg, value, record) ==
    /\ last' = Returned(op, arg, value)
    /\ operations' = StoreAfterSync(operations, record)
    /\ UNCHANGED <<max_entries, locked, poisoned, built, pushed, nextUuid, clock,
                   appended, window, cleared>>
    /\ UNCHANGED <<operation_log, in_call, heap, handles>>

\* Whether serialization succeeds matters only to an enabled sink.
Outcomes(enabled) == IF enabled THEN BOOLEAN ELSE {TRUE}

SyncOperation ==
    \E op \in SinkRecords, enabled \in BOOLEAN :
        \E serializes \in Outcomes(enabled) :
            Sink("sync_operation", enabled,
                 sync_operation(enabled, op, "session", "agent", serializes), op)

StoreEpisode ==
    \E op \in SinkRecords, enabled \in BOOLEAN :
        \E serializes \in Outcomes(enabled) :
            Sink("store_episode", enabled,
                 store_episode(enabled, from_operation(op, "session", "agent"),
                               serializes), op)

\* A caller sends the sink the records get_all() gives it, as one batch; at
\* most one entry of the batch fails to serialize.
BatchSyncOperations ==
    /\ CanLock
    /\ operations # <<>>
    /\ \E enabled \in BOOLEAN, bad \in 0..Len(operations) :
          /\ bad # 0 => enabled
          /\ Sink("batch_sync_operations", enabled,
                  batch_sync_operations(enabled, operations,
                                        [i \in 1..Len(operations) |-> i # bad]),
                  operations[Len(operations)])

\* A caller creates a record once it has appended the one before.
SinkBuild == built = {} /\ Build

\* A caller that appends records, tells the sink about them, and reads the
\* log.
SinkNext ==
    \/ SinkBuild
    \/ \E operation \in built : AddPush(operation)
    \/ \E operation \in pushed : AddTrim(operation)
    \/ SyncOperation
    \/ StoreEpisode
    \/ BatchSyncOperations
    \/ GetAll
    \/ Count

SinkSpec == Init /\ [][SinkNext]_vars

\* ------------------------------------------------- JJWrapper and its locks
\* JJWrapper keeps its log in Arc<Mutex<JJOperationLog>>, and the log keeps
\* its Vec in Arc<Mutex<Vec<..>>>: a JJWrapper method locks `operation_log`
\* and, holding it, calls log methods that each lock `operations`.
Lock(mutex, method) == [act |-> "lock", mutex |-> mutex, method |-> method]
Unlock(mutex, method) == [act |-> "unlock", mutex |-> mutex, method |-> method]

\* self.operation_log.lock().unwrap().add_operation(operation), the logging
\* statement of execute().
ExecuteSteps ==
    <<Lock("operation_log", "none"),
      Lock("operations", "add_operation"),
      Unlock("operations", "add_operation"),
      Unlock("operation_log", "none")>>

\* Variant: an execute() that logs the command also when it failed.
FailedStepsLogged == ExecuteSteps

\* execute() when the command failed: `return Err(..)` before the record is
\* created, so no lock is taken.
FailedSteps == <<>>

\* Variant: a get_stats that takes the guard of operation_log anew for each
\* figure.
GetStatsStepsUnlocked ==
    <<Lock("operation_log", "none"),
      Lock("operations", "count"), Unlock("operations", "count"),
      Unlock("operation_log", "none"),
      Lock("operation_log", "none"),
      Lock("operations", "avg_duration_ms"),
      Unlock("operations", "avg_duration_ms"),
      Unlock("operation_log", "none"),
      Lock("operation_log", "none"),
      Lock("operations", "success_rate"),
      Unlock("operations", "success_rate"),
      Unlock("operation_log", "none")>>

\* get_stats(): `let log = self.operation_log.lock().unwrap()` lives to the
\* end of the function, across the three log methods.
GetStatsSteps ==
    <<Lock("operation_log", "none"),
      Lock("operations", "count"), Unlock("operations", "count"),
      Lock("operations", "avg_duration_ms"),
      Unlock("operations", "avg_duration_ms"),
      Lock("operations", "success_rate"),
      Unlock("operations", "success_rate"),
      Unlock("operation_log", "none")>>

\* get_operations(limit)
GetOperationsSteps ==
    <<Lock("operation_log", "none"),
      Lock("operations", "get_recent"), Unlock("operations", "get_recent"),
      Unlock("operation_log", "none")>>

\* clear_log()
ClearLogSteps ==
    <<Lock("operation_log", "none"),
      Lock("operations", "clear"), Unlock("operations", "clear"),
      Unlock("operation_log", "none")>>

\* Variant: a get_stats that, holding the guard, locks operation_log again
\* (as a call of another JJWrapper method from inside it would).
ScriptReentrant(op) ==
    CASE op = "execute" -> ExecuteSteps
      [] op = "execute_failed" -> FailedSteps
      [] op = "describe" -> ExecuteSteps \o GetOperationsSteps
      [] op = "get_stats" ->
           <<Lock("operation_log", "none"),
             Lock("operations", "count"), Unlock("operations", "count"),
             Lock("operation_log", "none"),
             Lock("operations", "get_recent"), Unlock("operations", "get_recent"),
             Unlock("operation_log", "none"),
             Unlock("operation_log", "none")>>
      [] op = "get_operations" -> GetOperationsSteps
      [] op = "clear_log" -> ClearLogSteps

\* The lock and unlock steps of a JJWrapper method, in program order. The
\* guard of operation_log is dropped at the end of the statement or block
\* that took it, after the log method has dropped its own. describe() is
\* execute() followed by get_operations(1).
Script(op) ==
    CASE op = "execute" -> ExecuteSteps
      [] op = "execute_failed" -> FailedSteps
      [] op = "describe" -> ExecuteSteps \o GetOperationsSteps
      [] op = "get_stats" -> GetStatsSteps
      [] op = "get_operations" -> GetOperationsSteps
      [] op = "clear_log" -> ClearLogSteps

\* The subcommands the simulated executor answers.
SimulatedCommands ==
    {"version", "--version", "status", "log", "branch", "diff", "resolve",
     "describe", "new", "edit", "abandon", "squash", "rebase", "undo",
     "restore", "git"}

\* wasm::execute_jj_command on wasm32: a canned response for the subcommands
\* it knows, CommandFailed for any other first token and for no token.
execute_jj_command(args) ==
    IF args # <<>> /\ args[1] \in SimulatedCommands
    THEN Ok("response")
    ELSE Err("CommandFailed", "Unknown command in WASM simulation")

\* wasm::execute_jj_command in a build for another target.
execute_jj_command_stub(args) ==
    Err("CommandFailed", "WASM execution not available in this build")

\* What execute() is called with and what the command that ran reports:
\* whether it succeeded and how long it took (Instant::elapsed in
\* milliseconds).
ExecuteInputs ==
    { [args |-> <<"describe", "-m">>, success |-> TRUE, execution_time_ms |-> U64(100)],
      [args |-> <<"git", "push">>, success |-> FALSE, execution_time_ms |-> U64Zero],
      [args |-> <<"unknown_command">>, success |-> TRUE, execution_time_ms |-> U64Zero] }

\* The limits get_operations() is called with.
Limits == {1, 2}

\* The messages describe() is called with.
Messages == {"msg"}

\* describe(message) runs `jj describe -m <message>`.
DescribeInputs ==
    { [args |-> <<"describe", "-m", message>>, success |-> success,
       execution_time_ms |-> U64(100)] :
        message \in Messages, success \in BOOLEAN }

\* JJResult::new(output, String::new(), 0, elapsed): what execute() returns.
ResultOf(inp) ==
    [success |-> inp.success, execution_time_ms |-> inp.execution_time_ms]

\* Variant: a record left as JJOperation::new makes it, category Unknown.
ExecuteRecordUnclassified(inp, uuid, now) ==
    NewOperation(uuid, ToString(now) \o "@localhost",
                 [operation_type |-> "Unknown",
                  command |-> <<"jj">> \o inp.args,
                  user |-> "unknown", hostname |-> "localhost",
                  duration_ms |-> inp.execution_time_ms,
                  success |-> inp.success, error |-> None],
                 now)

\* The record execute() creates: JJOperation::new(format!("{}@{}", now,
\* hostname), command, username, hostname), then operation_type, success and
\* duration_ms are set from the command.
ExecuteRecord(inp, uuid, now) ==
    NewOperation(uuid, ToString(now) \o "@localhost",
                 [operation_type |-> detect_operation_type(inp.args),
                  command |-> <<"jj">> \o inp.args,
                  user |-> "unknown", hostname |-> "localhost",
                  duration_ms |-> inp.execution_time_ms,
                  success |-> inp.success, error |-> None],
                 now)

\* the step thread t takes next
NextStep(t) == Script(in_call[t].op)[in_call[t].at]

Running(t) == in_call[t].op \notin {"none", "panicked"}

Advanced(t) == [in_call EXCEPT ![t].at = @ + 1]

Panicked(t) ==
    [in_call EXCEPT ![t] = [Idle EXCEPT !.op = "panicked"]]

\* What a JJWrapper call returns, from what the call has read and made.
\* describe() returns the first record of get_operations(1), or
\* OperationNotFound when there is none.
ReturnOf(c) ==
    CASE c.op \in {"execute", "execute_failed"} ->
           [args |-> c.args, result |-> c.result, operation |-> c.operation]
      [] c.op = "describe" ->
           [args |-> c.args,
            result |-> IF c.seen[1] = <<>>
                       THEN Err("OperationNotFound", "describe")
                       ELSE Ok(c.seen[1][1]),
            operation |-> c.operation]
      [] c.op = "get_stats" ->
           [total_operations |-> c.seen[1],
            avg_duration_ms |-> c.seen[2],
            success_rate |-> c.seen[3]]
      [] c.op = "get_operations" -> Ok(c.seen[1])
      [] c.op = "clear_log" -> "unit"

\* the name a call goes by in `last`
MethodOf(op) == IF op = "execute_failed" THEN "execute" ELSE op

\* execute(args): the command runs. When it fails the call returns
\* CommandFailed at once; otherwise the record is created, and what remains
\* is the statement that logs it.
Execute(t) ==
    /\ in_call[t] = Idle
    /\ nextUuid <= MaxExecutes
    /\ \E inp \in ExecuteInputs :
       \E output \in {execute_jj_command(inp.args), execute_jj_command_stub(inp.args)} :
          LET failed == output[1] = "Err"
              op == IF failed THEN "execute_failed" ELSE "execute"
              call == [op |-> op, at |-> 1,
                       operation |-> IF Script(op) = <<>> THEN None
                                     ELSE Some(ExecuteRecord(inp, Uuid(nextUuid), clock)),
                       args |-> inp.args,
                       result |-> IF failed THEN output ELSE Ok(ResultOf(inp)),
                       seen |-> <<>>]
          IN  IF Script(op) = <<>>
              THEN /\ last' = Returned("execute", t, ReturnOf(call))
                   /\ UNCHANGED <<in_call, nextUuid, clock>>
              ELSE /\ in_call' = [in_call EXCEPT ![t] = call]
                   /\ nextUuid' = nextUuid + 1
                   /\ clock' = clock + 1
                   /\ last' = NoCall
    /\ UNCHANGED <<operations, max_entries, locked, poisoned, built, pushed,
                   appended, window, cleared, operation_log>>
    /\ UNCHANGED <<heap, handles>>

\* describe(message): self.execute(&args).await? returns the error of a
\* failed command at once; otherwise the call goes on as execute does.
Describe(t) ==
    /\ in_call[t] = Idle
    /\ nextUuid <= MaxExecutes
    /\ \E inp \in DescribeInputs :
       \E output \in {execute_jj_command(inp.args), execute_jj_command_stub(inp.args)} :
          IF output[1] = "Err"
          THEN /\ last' = Returned("describe", t,
                              [args |-> inp.args, result |-> output,
                               operation |-> None])
               /\ UNCHANGED <<in_call, nextUuid, clock>>
          ELSE /\ in_call' = [in_call EXCEPT ![t] =
                     [op |-> "describe", at |-> 1,
                      operation |-> Some(ExecuteRecord(inp, Uuid(nextUuid), clock)),
                      args |-> inp.args, result |-> Ok(ResultOf(inp)),
                      seen |-> <<>>]]
               /\ nextUuid' = nextUuid + 1
               /\ clock' = clock + 1
               /\ last' = NoCall
    /\ UNCHANGED <<operations, max_entries, locked, poisoned, built, pushed,
                   appended, window, cleared, operation_log>>
    /\ UNCHANGED <<heap, handles>>

\* get_stats(), get_operations(limit) or clear_log() is called.
Enter(t) ==
    /\ in_call[t] = Idle
    /\ \E op \in {"get_stats", "get_operations", "clear_log"} :
       \E limit \in Limits :
          /\ op # "get_operations" => limit = 1
          /\ in_call' = [in_call EXCEPT ![t] =
                [Idle EXCEPT !.op = op, !.at = 1,
                             !.args = IF op = "get_operations" THEN <<limit>> ELSE <<>>]]
    /\ last' = NoCall
    /\ UNCHANGED <<operations, max_entries, locked, poisoned, built, pushed,
                   nextUuid, clock, appended, window, cleared, operation_log>>
    /\ UNCHANGED <<heap, handles>>

\* self.operation_log.lock().unwrap(): waits for the Mutex, and panics when
\* it is poisoned.
LockLog(t) ==
    /\ Running(t)
    /\ NextStep(t).act = "lock" /\ NextStep(t).mutex = "operation_log"
    /\ operation_log.holder = "none"
    /\ IF operation_log.poisoned
       THEN /\ in_call' = Panicked(t)
            /\ last' = PanickedCall(MethodOf(in_call[t].op), t)
            /\ UNCHANGED operation_log
       ELSE /\ operation_log' = [operation_log EXCEPT !.holder = t]
            /\ in_call' = Advanced(t)
            /\ last' = NoCall
    /\ UNCHANGED <<operations, max_entries, locked, poisoned, built, pushed,
                   nextUuid, clock, appended, window, cleared>>
    /\ UNCHANGED <<heap, handles>>

\* What a reading log method returns to the JJWrapper method that called it.
ReadBy(c, method, ops, overflow_checks) ==
    CASE method = "count" -> count(ops)
      [] method = "avg_duration_ms" -> avg_duration_ms(ops, overflow_checks).value
      [] method = "success_rate" -> success_rate(ops)
      [] method = "get_recent" ->
           get_recent(ops, IF c.op = "describe" THEN 1 ELSE c.args[1])

\* A log method locks `operations` and does its work. A panic here (a
\* poisoned Mutex, an overflowing sum) unwinds through the guard of
\* operation_log, which the thread holds, and poisons that Mutex too.
LockOperations(t) ==
    /\ Running(t)
    /\ NextStep(t).act = "lock" /\ NextStep(t).mutex = "operations"
    /\ CanLock
    /\ LET method == NextStep(t).method
           operation == in_call[t].operation[1]
       IN  \E overflow_checks \in BOOLEAN :
             IF \/ poisoned
                \/ /\ method = "avg_duration_ms"
                   /\ avg_duration_ms(operations, overflow_checks).panicked
             THEN /\ in_call' = Panicked(t)
                  /\ last' = PanickedCall(MethodOf(in_call[t].op), t)
                  /\ poisoned' = TRUE
                  /\ operation_log' = [holder |-> "none", poisoned |-> TRUE]
                  /\ UNCHANGED <<operations, locked, pushed, appended, window, cleared>>
             ELSE /\ last' = NoCall
                  /\ locked' = TRUE
                  /\ UNCHANGED <<poisoned, operation_log>>
                  /\ CASE method = "add_operation" ->
                            /\ operations' = push(operations, operation)
                            /\ pushed' = pushed \cup {operation}
                            /\ appended' = Append(appended,
                                   [id |-> operation.id, after |-> ReturnedIds])
                            /\ window' = LastK(Append(window, operation), max_entries)
                            /\ cleared' =
                                   {[c EXCEPT !.later = IF @ < max_entries THEN @ + 1 ELSE @] :
                                      c \in cleared}
                            /\ in_call' = Advanced(t)
                       [] method = "clear" ->
                            /\ operations' = clear(operations)
                            /\ appended' = <<>>
                            /\ window' = <<>>
                            /\ cleared' = cleared \cup
                                   {[id |-> operations[i].id, later |-> Len(operations) - i] :
                                      i \in 1..Len(operations)}
                            /\ in_call' = Advanced(t)
                            /\ UNCHANGED pushed
                       [] OTHER ->
                            /\ operations' = StoreAfterQuery(operations)
                            /\ in_call' =
                                   [Advanced(t) EXCEPT ![t].seen =
                                       Append(@, ReadBy(in_call[t], method, operations,
                                                        overflow_checks))]
                            /\ UNCHANGED <<pushed, appended, window, cleared>>
    /\ UNCHANGED <<max_entries, built, nextUuid, clock>>
    /\ UNCHANGED <<heap, handles>>

\* The log method returns and drops its guard; add_operation trims first.
UnlockOperations(t) ==
    /\ Running(t)
    /\ NextStep(t).act = "unlock" /\ NextStep(t).mutex = "operations"
    /\ locked' = FALSE
    /\ IF NextStep(t).method = "add_operation"
       THEN /\ operations' = drain_excess(operations, max_entries)
            /\ pushed' = pushed \ {in_call[t].operation[1]}
       ELSE UNCHANGED <<operations, pushed>>
    /\ in_call' = Advanced(t)
    /\ last' = NoCall
    /\ UNCHANGED <<max_entries, poisoned, built, nextUuid, clock, appended,
                   window, cleared, operation_log>>
    /\ UNCHANGED <<heap, handles>>

\* The JJWrapper method drops the guard of operation_log, and returns when
\* that was its last statement. describe() returns CommandFailed after its
\* execute() when the result is not a success.
UnlockLog(t) ==
    /\ Running(t)
    /\ NextStep(t).act = "unlock" /\ NextStep(t).mutex = "operation_log"
    /\ operation_log' = [operation_log EXCEPT !.holder = "none"]
    /\ LET c == in_call[t]
       IN  IF c.at = Len(Script(c.op))
           THEN /\ in_call' = [in_call EXCEPT ![t] = Idle]
                /\ last' = Returned(MethodOf(c.op), t, ReturnOf(c))
           ELSE IF c.op = "describe" /\ ~c.result[2].success
           THEN /\ in_call' = [in_call EXCEPT ![t] = Idle]
                /\ last' = Returned("describe", t,
                               [args |-> c.args,
                                result |-> Err("CommandFailed", "stderr"),
                                operation |-> c.operation])
           ELSE /\ in_call' = Advanced(t)
                /\ last' = NoCall
    /\ UNCHANGED <<operations, max_entries, locked, poisoned, built, pushed,
                   nextUuid, clock, appended, window, cleared>>
    /\ UNCHANGED <<heap, handles>>

\* Threads that share a JJWrapper (or clones of it) and call its methods.
WrapperNext ==
    \/ \E t \in Threads : Execute(t)
    \/ \E t \in Threads : Describe(t)
    \/ \E t \in Threads : Enter(t)
    \/ \E t \in Threads : LockLog(t)
    \/ \E t \in Threads : LockOperations(t)
    \/ \E t \in Threads : UnlockOperations(t)
    \/ \E t \in Threads : UnlockLog(t)

WrapperSpec == Init /\ [][WrapperNext]_vars

\* ------------------------------------------------------------------ clones
\* JJOperationLog and JJWrapper derive Clone. What is behind an Arc lives on
\* the heap, in a cell: the Vec of a log, [vec |-> ..], or the JJOperationLog
\* of a wrapper, [log |-> ..]. `handles` are the JJOperationLog and JJWrapper
\* values callers hold, the first one made by `new` or `with_config`, the
\* others by clone().

\* Arc::new(value): a new cell, and its address
ArcNew(cell, cells) == [arc |-> Len(cells) + 1, heap |-> Append(cells, cell)]

\* JJOperationLog::new(max_entries)
NewLog(max, cells) ==
    LET made == ArcNew([vec |-> <<>>], cells)
    IN  [value |-> [type |-> "JJOperationLog", operations |-> made.arc,
                    max_entries |-> max],
         heap |-> made.heap]

\* JJWrapper::with_config(config)
with_config(config, cells) ==
    LET log == NewLog(config.max_log_entries, cells)
        made == ArcNew([log |-> log.value], log.heap)
    IN  [value |-> [type |-> "JJWrapper", config |-> config,
                    operation_log |-> made.arc],
         heap |-> made.heap]

\* Variant: a clone of a log that copies the records into a Vec of its own.
CloneDeep(value, cells) ==
    IF value.type = "JJOperationLog"
    THEN LET made == ArcNew(cells[value.operations], cells)
         IN  [value |-> [value EXCEPT !.operations = made.arc], heap |-> made.heap]
    ELSE [value |-> value, heap |-> cells]

\* #[derive(Clone)]: every field is cloned. Cloning an Arc gives another
\* pointer to the same cell; max_entries and config are copied.
Clone(value, cells) ==
    IF value.type = "JJOperationLog"
    THEN [value |-> [type |-> "JJOperationLog", operations |-> value.operations,
                     max_entries |-> value.max_entries],
          heap |-> cells]
    ELSE [value |-> [type |-> "JJWrapper", config |-> value.config,
                     operation_log |-> value.operation_log],
          heap |-> cells]

\* the JJOperationLog a handle works on: itself, or the one behind the
\* wrapper's Arc<Mutex<..>>
LogOf(value) ==
    IF value.type = "JJWrapper" THEN heap[value.operation_log].log ELSE value

\* A caller makes a log or a wrapper.
Create ==
    /\ handles = <<>>
    /\ \E type \in {"JJOperationLog", "JJWrapper"} :
          LET made == IF type = "JJOperationLog"
                      THEN NewLog(max_entries, heap)
                      ELSE with_config([max_log_entries |-> max_entries], heap)
          IN  /\ handles' = <<made.value>>
              /\ heap' = made.heap
    /\ last' = NoCall
    /\ UNCHANGED <<operations, max_entries, locked, poisoned, built, pushed,
                   nextUuid, clock, appended, window, cleared>>
    /\ UNCHANGED <<operation_log, in_call>>

\* A caller clones a handle it holds.
CloneHandle ==
    /\ handles # <<>>
    /\ Len(handles) <= MaxClones
    /\ \E i \in 1..Len(handles) :
          LET made == Clone(handles[i], heap)
          IN  /\ handles' = Append(handles, made.value)
              /\ heap' = made.heap
    /\ last' = NoCall
    /\ UNCHANGED <<operations, max_entries, locked, poisoned, built, pushed,
                   nextUuid, clock, appended, window, cleared>>
    /\ UNCHANGED <<operation_log, in_call>>

\* add_operation through a handle (for a wrapper, the logging of execute).
AddThrough ==
    /\ nextUuid <= MaxOps
    /\ \E i \in 1..Len(handles), inp \in Inputs :
          LET log == LogOf(handles[i])
              operation == NewOperation(Uuid(nextUuid), "op0", inp, clock)
          IN  /\ heap' = [heap EXCEPT ![log.operations].vec =
                             drain_excess(push(@, operation), log.max_entries)]
              /\ last' = Returned("add_operation", i, operation)
    /\ nextUuid' = nextUuid + 1
    /\ clock' = clock + 1
    /\ UNCHANGED <<operations, max_entries, locked, poisoned, built, pushed,
                   appended, window, cleared>>
    /\ UNCHANGED <<operation_log, in_call, handles>>

\* clear() or clear_log() through a handle.
ClearThrough ==
    /\ \E i \in 1..Len(handles) :
          /\ heap' = [heap EXCEPT ![LogOf(handles[i]).operations].vec = clear(@)]
          /\ last' = Returned("clear", i, "unit")
    /\ UNCHANGED <<operations, max_entries, locked, poisoned, built, pushed,
                   nextUuid, clock, appended, window, cleared>>
    /\ UNCHANGED <<operation_log, in_call, handles>>

\* get_all() through a handle of a log, get_operations(limit) through one of
\* a wrapper with a limit that covers the log.
GetAllThrough ==
    /\ \E i \in 1..Len(handles) :
          LET ops == heap[LogOf(handles[i]).operations].vec
          IN  last' = Returned("get_all", i,
                         IF handles[i].type = "JJWrapper"
                         THEN Rev(get_recent(ops, Len(ops)))
                         ELSE get_all(ops))
    /\ UNCHANGED <<operations, max_entries, locked, poisoned, built, pushed,
                   nextUuid, clock, appended, window, cleared>>
    /\ UNCHANGED <<operation_log, in_call, heap, handles>>

CloneNext ==
    \/ Create
    \/ CloneHandle
    \/ AddThrough
    \/ ClearThrough
    \/ GetAllThrough

CloneSpec == Init /\ [][CloneNext]_vars

\* ====================================================================
\* Properties
\* ====================================================================
Min(a, b) == IF a <= b THEN a ELSE b

\* the ids of a sequence of records, in order
Ids(recs) == [i \in 1..Len(recs) |-> recs[i].id]

IdSet(recs) == {recs[i].id : i \in 1..Len(recs)}

\* the ids pushed since the latest clear(), in push order
AppendedIds == [i \in 1..Len(appended) |-> appended[i].id]

\* the queries that return a sequence of records
SeqQueries ==
    {"get_recent", "get_all", "get_by_type", "filter_by_date_range",
     "filter_by_user", "search", "failed_operations",
     "history_modifying_operations", "remote_operations",
     "get_user_operations"}

\* every query
Queries ==
    SeqQueries \cup {"find_by_id", "get_operation", "count", "is_empty", "statistics"}

\* the latest step was the call `op`, and it returned
Answered(op) == last.op = op /\ ~last.panicked

\* C1: whenever the Mutex is free (the only states a reader can lock and
\* observe) the Vec holds at most max_entries records, and no query result
\* ever shows more than max_entries records: the state between the push and
\* the trim of an add_operation is never observed.
C1_CapacityBound ==
    /\ ~locked => Len(operations) <= max_entries
    /\ Answered("count") => last.value <= max_entries
    /\ (last.op \in SeqQueries /\ ~last.panicked) => Len(last.value) <= max_entries

\* C1 witness: count() answers max_entries on a log that has already evicted
\* a record, while another thread holds a record it is about to append.
C1_Witness ==
    /\ Answered("count")
    /\ max_entries >= 1
    /\ last.value = max_entries
    /\ Len(appended) > max_entries
    /\ built # {}

\* C2: after n > max_entries appends since the log was created or last
\* cleared, count() is max_entries and get_all() is exactly the last
\* max_entries appended records, in the order they were appended, whatever
\* their fields are.
C2_KeepsLastK ==
    Len(appended) > max_entries =>
        /\ Answered("count") => last.value = max_entries
        /\ Answered("get_all") =>
              /\ last.value = window
              /\ Ids(last.value) = LastK(AppendedIds, max_entries)

\* C2 witness: get_all() on a log of capacity 2 after a third append; the
\* log kept a failed record and a successful one.
C2_Witness ==
    /\ Answered("get_all")
    /\ max_entries = 2
    /\ Len(appended) > max_entries
    /\ \E i, j \in 1..Len(last.value) :
          last.value[i].success /\ ~last.value[j].success

\* C3: when every add_operation call made since the log was created or last
\* cleared has returned (m of them), the log holds min(m, max_entries)
\* records, no id twice, each of them exactly as it was passed in, and the
\* missing ones are the first m - min(m, max_entries) that were pushed.
C3_ConcurrentAppends ==
    (built = {} /\ pushed = {} /\ ~locked) =>
        LET m == Len(appended)
            kept == Min(m, max_entries)
        IN  /\ Len(operations) = kept
            /\ Cardinality(IdSet(operations)) = Len(operations)
            /\ \A i \in 1..Len(operations) :
                  /\ i <= Len(window)
                  /\ operations[i] = window[i]
            /\ \A i \in 1..m :
                  AppendedIds[i] \in IdSet(operations) <=> i > m - kept

\* C3 witness: two appenders held their records at the same time and pushed
\* them in the order opposite to their creation; all calls have returned and
\* the log has evicted.
C3_Witness ==
    /\ built = {} /\ pushed = {} /\ ~locked
    /\ max_entries >= 1
    /\ Len(appended) > max_entries
    /\ \E i, j \in 1..Len(appended) :
          i < j /\ appended[i].id = Uuid(2) /\ appended[j].id = Uuid(1)

\* positions in `appended` of the records whose add_operation has returned
\* and that fewer than k later pushes have followed
Fresh(k) ==
    {i \in 1..Len(appended) :
        appended[i].id \in ReturnedIds /\ Len(appended) - i < k}

\* `recs` holds the record of id `id` exactly as it was passed to
\* add_operation
Shows(recs, id) ==
    \E j \in 1..Len(recs), w \in 1..Len(window) :
        window[w].id = id /\ recs[j] = window[w]

\* C4 (as amended): a query that starts after an add_operation call has
\* returned shows that record, field for field, in get_all(), and in
\* get_recent(limit) when fewer than limit records were pushed after it,
\* unless max_entries or more later pushes have evicted it or a later clear()
\* has removed it.
C4_NoStaleReads ==
    /\ Answered("get_all") =>
          \A i \in Fresh(max_entries) : Shows(last.value, appended[i].id)
    /\ Answered("get_recent") =>
          \A i \in Fresh(Min(max_entries, last.arg)) :
              Shows(last.value, appended[i].id)

\* C4 witness: after a clear(), get_all() on a log that has since evicted a
\* record shows the record appended last.
C4_Witness ==
    /\ Answered("get_all")
    /\ cleared # {}
    /\ Len(appended) > max_entries
    /\ Fresh(max_entries) # {}
    /\ last.value # <<>>

\* C4 (as stated): a query that starts after an add_operation call has
\* returned shows that record in get_all() and (within its limit) in
\* get_recent(), unless a later append has evicted it. The records that a
\* clear() removed and that fewer than max_entries pushes have followed were
\* evicted by no append.
C4_AsStated ==
    /\ C4_NoStaleReads
    /\ Answered("get_all") =>
          \A c \in cleared : c.later < max_entries => c.id \in IdSet(last.value)
    /\ Answered("get_recent") =>
          \A c \in cleared :
              c.later < Min(max_entries, last.arg) => c.id \in IdSet(last.value)

\* the position of the record of id `id` in the push order
PushIndex(id) == CHOOSE k \in 1..Len(appended) : appended[k].id = id

\* C5: every get_all() result lists its records in the one order in which
\* they were pushed (so two results agree on the records they share), and a
\* record whose add_operation had returned before another was pushed comes
\* before it.
C5_TotalOrder ==
    Answered("get_all") =>
        LET v == last.value
        IN  /\ IdSet(v) \subseteq IdSet(appended)
            /\ \A i, j \in 1..Len(v) :
                  /\ i < j => PushIndex(v[i].id) < PushIndex(v[j].id)
                  /\ v[i].id \in appended[PushIndex(v[j].id)].after => i < j

\* C5 witness: get_all() returns two records of which the first had been
\* appended, and its call returned, before the second was pushed; the second
\* was built first.
C5_Witness ==
    /\ Answered("get_all")
    /\ Len(last.value) = 2
    /\ last.value[1].id \in appended[PushIndex(last.value[2].id)].after
    /\ last.value[1].timestamp > last.value[2].timestamp

\* indices of the stored records that carry `id` as id or as operation_id
Carriers(id) ==
    {i \in 1..Len(operations) :
        operations[i].id = id \/ operations[i].operation_id = id}

\* index of the stored record whose own id is `id`, as a set
Own(id) == {i \in 1..Len(operations) : operations[i].id = id}

\* the least element of a non-empty set of indices
Least(S) == CHOOSE i \in S : \A j \in S : i <= j

\* C6 (as amended): after add_operation(r) has returned, find_by_id(r.id)
\* returns the first stored record that carries r.id as its id or as its
\* operation_id. That is r itself, field for field, while r is stored and no
\* record stored ahead of it has r.id as operation_id; it is not-found once r
\* is evicted or cleared and no stored record has r.id as operation_id; and
\* otherwise it is the oldest stored record whose operation_id is r.id.
C6_FindAfterAppend ==
    (Answered("find_by_id") /\ last.arg \in ReturnedIds) =>
        LET id == last.arg
        IN  /\ (Own(id) # {} /\ Least(Carriers(id)) \in Own(id)) =>
                  /\ last.value # None
                  /\ last.value[1].id = id
                  /\ Shows(last.value, id)
            /\ Carriers(id) = {} => last.value = None
            /\ (Carriers(id) # {} /\ Least(Carriers(id)) \notin Own(id)) =>
                  /\ last.value = Some(operations[Least(Carriers(id))])
                  /\ last.value[1].operation_id = id
                  /\ last.value[1].id # id

\* C6 witness: r has been evicted, and find_by_id(r.id) returns a later
\* record whose operation_id is r.id.
C6_Witness ==
    /\ Answered("find_by_id")
    /\ last.arg \in ReturnedIds
    /\ Own(last.arg) = {}
    /\ last.value # None

\* C6 (as stated): after add_operation(r) has returned, find_by_id(r.id) is
\* exactly r while r is stored, and not-found once r has been evicted.
C6_AsStated ==
    (Answered("find_by_id") /\ last.arg \in ReturnedIds) =>
        IF Own(last.arg) # {}
        THEN /\ last.value # None
             /\ last.value[1].id = last.arg
             /\ Shows(last.value, last.arg)
        ELSE last.value = None

\* C7: find_by_id(id) returns a record exactly when some stored record has
\* `id` as its id or as its operation_id, and then it returns the oldest such
\* record.
C7_FindByIdFirstMatch ==
    Answered("find_by_id") =>
        /\ last.value # None <=> Carriers(last.arg) # {}
        /\ Carriers(last.arg) # {} =>
              last.value = Some(operations[Least(Carriers(last.arg))])

\* C7 witness: two stored records match the id, one by id and one by
\* operation_id.
C7_Witness ==
    /\ Answered("find_by_id")
    /\ Cardinality(Carriers(last.arg)) = 2
    /\ Own(last.arg) # {}

\* C8 (as stated): no call of the log fails except get_operation, which
\* returns OperationNotFound exactly when no stored record matches.
C8_OnlyNotFound ==
    /\ ~last.panicked
    /\ Answered("get_operation") =>
          IF Carriers(last.arg) = {}
          THEN last.value = Err("OperationNotFound", last.arg)
          ELSE last.value = Ok(operations[Least(Carriers(last.arg))])

\* C9: get_recent(limit) returns min(limit, count()) records: the newest
\* first, then the one before it, and so on.
C9_RecentNewestFirst ==
    Answered("get_recent") =>
        LET n == Len(operations)
            v == last.value
        IN  /\ Len(v) = Min(last.arg, n)
            /\ \A i \in 1..Len(v) : v[i] = operations[n + 1 - i]
            /\ last.arg = 0 => v = <<>>
            /\ last.arg > n => v = Rev(get_all(operations))

\* C9 witness: get_recent(1) on a log of two records.
C9_Witness ==
    /\ Answered("get_recent")
    /\ last.arg = 1
    /\ Len(operations) = 2
    /\ Len(last.value) = 1

FilterQueries ==
    {"get_by_type", "filter_by_date_range", "filter_by_user", "search",
     "failed_operations", "history_modifying_operations", "remote_operations"}

\* two characters that are the same letter, case ignored
SameLetter(a, b) ==
    \/ a = b
    \/ \E pair \in {<<"A", "a">>, <<"B", "b">>, <<"D", "d">>, <<"X", "x">>} :
          {a, b} = {pair[1], pair[2]}

\* q occurs in text as a contiguous run, case ignored
OccursIgnoringCase(text, q) ==
    \E k \in 0..(Len(text) - Len(q)) :
        \A i \in 1..Len(q) : SameLetter(text[k + i], q[i])

\* the predicate of the filtering query `op` called with `arg`
Satisfies(op, arg, rec) ==
    CASE op = "get_by_type" -> rec.operation_type = arg
      [] op = "filter_by_date_range" ->
            arg[1] <= rec.timestamp /\ rec.timestamp <= arg[2]
      [] op = "filter_by_user" -> rec.user = arg
      [] op = "search" -> OccursIgnoringCase(rec.command, arg)
      [] op = "failed_operations" -> rec.success = FALSE
      [] op = "history_modifying_operations" ->
            rec.operation_type \in {"Commit", "Describe", "Edit", "Abandon",
                                    "Rebase", "Squash", "Split", "Move", "Merge"}
      [] op = "remote_operations" ->
            rec.operation_type \in {"Fetch", "GitFetch", "Push", "GitPush",
                                    "Clone", "GitImport", "GitExport"}

\* v is the subsequence of `all` at the indices in idx, in increasing order
IsSubsequenceAt(v, all, idx) ==
    /\ Len(v) = Cardinality(idx)
    /\ \A k \in 1..Len(v) :
          \E i \in idx :
              /\ Cardinality({j \in idx : j < i}) = k - 1
              /\ v[k] = all[i]

\* C11: every filtering query returns the records of get_all() that satisfy
\* its predicate, all of them and no other, in insertion order; when none
\* does, the result is the empty sequence.
C11_FiltersAreSubsequences ==
    (last.op \in FilterQueries /\ ~last.panicked) =>
        LET all == get_all(operations)
            idx == {i \in 1..Len(all) : Satisfies(last.op, last.arg, all[i])}
        IN  /\ IsSubsequenceAt(last.value, all, idx)
            /\ idx = {} => last.value = <<>>

\* C11 witness: remote_operations() picks the first and the third of three
\* stored records.
C11_Witness ==
    /\ Answered("remote_operations")
    /\ Len(operations) = 3
    /\ Len(last.value) = 2
    /\ last.value[1] = operations[1]
    /\ last.value[2] = operations[3]
    /\ last.value[1] # last.value[2]

\* C12: filter_by_date_range(start, end) returns a stored record exactly when
\* start <= timestamp <= end, both ends included; start > end gives nothing.
C12_DateRangeInclusive ==
    Answered("filter_by_date_range") =>
        LET start == last.arg[1]
            end == last.arg[2]
        IN  /\ IdSet(last.value) \subseteq IdSet(operations)
            /\ \A i \in 1..Len(operations) :
                  operations[i].id \in IdSet(last.value)
                     <=> (start <= operations[i].timestamp
                            /\ operations[i].timestamp <= end)
            /\ start > end => last.value = <<>>

\* C12 witness: a range whose result holds a record stamped at its start and
\* a record stamped at its end, and leaves a later record out.
C12_Witness ==
    /\ Answered("filter_by_date_range")
    /\ last.arg[1] < last.arg[2]
    /\ \E i, j \in 1..Len(last.value) :
          /\ last.value[i].timestamp = last.arg[1]
          /\ last.value[j].timestamp = last.arg[2]
    /\ Len(last.value) < Len(operations)

\* C13: search(q) returns a stored record exactly when q occurs in its
\* command text, the case of the letters ignored in both.
C13_SearchIgnoresCase ==
    Answered("search") =>
        /\ IdSet(last.value) \subseteq IdSet(operations)
        /\ \A i \in 1..Len(operations) :
              operations[i].id \in IdSet(last.value)
                 <=> OccursIgnoringCase(operations[i].command, last.arg)

\* C13 witness: a query in capitals finds two records whose command texts
\* hold it in other cases, and leaves a third record out.
C13_Witness ==
    /\ Answered("search")
    /\ last.arg = <<"D", "D">>
    /\ Len(last.value) = 2
    /\ Len(operations) = 3
    /\ \E i \in 1..2 : ~contains(last.value[i].command, last.arg)

\* the count a by_type map records for a category, an absent entry being 0
CountFor(by_type, c) == IF c \in DOMAIN by_type THEN by_type[c] ELSE 0

\* the sum of the counts of a by_type map
RECURSIVE SumOver(_, _)
SumOver(by_type, keys) ==
    IF keys = {} THEN 0
    ELSE LET k == CHOOSE x \in keys : TRUE
         IN  by_type[k] + SumOver(by_type, keys \ {k})

\* indices of the stored records of category c
OfType(c) == {i \in 1..Len(operations) : operations[i].operation_type = c}

\* C14: for every category c, get_by_type(c) returns stored records of
\* category c only, as many as statistics().by_type records for c (0 when c
\* has no entry), and that is the number of stored records of category c.
C14_ByTypeAgrees ==
    /\ Answered("get_by_type") =>
          /\ \A k \in 1..Len(last.value) :
                /\ last.value[k].operation_type = last.arg
                /\ \E i \in 1..Len(operations) : operations[i] = last.value[k]
          /\ Len(last.value) =
                CountFor(statistics(operations, FALSE).stats.by_type, last.arg)
    /\ Answered("statistics") =>
          \A c \in OperationType :
              /\ CountFor(last.value.by_type, c) = Cardinality(OfType(c))
              /\ CountFor(last.value.by_type, c) = Len(get_by_type(operations, c))

\* C14 witness: statistics() on a log with two records of one category, one
\* of another, and categories without a record.
C14_Witness ==
    /\ Answered("statistics")
    /\ \E c, d \in DOMAIN last.value.by_type :
          last.value.by_type[c] = 2 /\ last.value.by_type[d] = 1
    /\ Cardinality(OfType("Commit")) = 2
    /\ OfType("Snapshot") = {}

\* C15: statistics() agrees with the store: total is count(), successful the
\* number of stored records that succeeded, failed the number of records
\* failed_operations() returns; the two add up to total, and so do the
\* by_type counts.
C15_StatisticsCounts ==
    Answered("statistics") =>
        LET st == last.value
        IN  /\ st.total = count(operations)
            /\ st.successful =
                  Cardinality({i \in 1..Len(operations) : operations[i].success})
            /\ st.failed = Len(failed_operations(operations))
            /\ st.successful + st.failed = st.total
            /\ SumOver(st.by_type, DOMAIN st.by_type) = st.total

\* C15 witness: statistics() on a log with successes and a failure, one of
\* the records without a measured duration.
C15_Witness ==
    /\ Answered("statistics")
    /\ last.value.successful = 2
    /\ last.value.failed = 1
    /\ \E i \in 1..Len(operations) : operations[i].duration_ms = U64Zero

\* Sums of u64 values over the naturals, kept as [low, carry]: the value is
\* low + carry * 2^64.
WidePlus(w, u) ==
    LET s == U64AddWide(w.low, u)
    IN  [low |-> s.low, carry |-> w.carry + s.carry]

\* the sum of the durations of the first i records of ops
RECURSIVE ExactSum(_, _)
ExactSum(ops, i) ==
    IF i = 0 THEN [low |-> U64Zero, carry |-> 0]
    ELSE WidePlus(ExactSum(ops, i - 1), ops[i].duration_ms)

\* q * n for a small natural n
RECURSIVE Times(_, _)
Times(q, n) ==
    IF n = 0 THEN [low |-> U64Zero, carry |-> 0]
    ELSE WidePlus(Times(q, n - 1), q)

\* q is the integer quotient of w by n
IsQuotient(q, w, n) ==
    \E r \in 0..(n - 1) : WidePlus(Times(q, n), U64(r)) = w

\* indices of the stored records with a nonzero duration
Measured ==
    {i \in 1..Len(operations) : operations[i].duration_ms # U64Zero}

\* C16 (as stated), on logs whose durations sum within the u64 range:
\* statistics().avg_duration_ms is the sum of the nonzero durations divided
\* by the number of records with a nonzero duration, and 0 when there is no
\* such record.
C16_AvgOverMeasured ==
    (Answered("statistics") /\ ExactSum(operations, Len(operations)).carry = 0) =>
        IF Measured = {}
        THEN last.value.avg_duration_ms = U64Zero
        ELSE IsQuotient(last.value.avg_duration_ms,
                        ExactSum(operations, Len(operations)),
                        Cardinality(Measured))

\* C17 (as stated): statistics().max_duration_ms is the largest stored
\* duration and total_duration_ms is the sum of the stored durations, both 0
\* when no record has a duration; durations 100, 200, 300 give total 3,
\* maximum 300 and average 200.
C17_MaxAndTotal ==
    Answered("statistics") =>
        LET st == last.value
            n == Len(operations)
        IN  /\ \A i \in 1..n : ~U64Gt(operations[i].duration_ms, st.max_duration_ms)
            /\ IF Measured = {}
               THEN st.max_duration_ms = U64Zero
               ELSE \E i \in Measured : operations[i].duration_ms = st.max_duration_ms
            /\ ExactSum(operations, n) = [low |-> st.total_duration_ms, carry |-> 0]
            /\ [i \in 1..n |-> operations[i].duration_ms] = <<U64(100), U64(200), U64(300)>>
                  => /\ st.total = 3
                     /\ st.max_duration_ms = U64(300)
                     /\ st.avg_duration_ms = U64(200)

\* C18: statistics() on a log that holds no record (new, cleared, or of
\* capacity 0) returns total, successful and failed 0, average and maximum
\* duration 0, and an empty by_type map.
C18_EmptyLogStatistics ==
    (Answered("statistics") /\ operations = <<>>) =>
        /\ last.value.total = 0
        /\ last.value.successful = 0
        /\ last.value.failed = 0
        /\ last.value.total_duration_ms = <<0, 0, 0, 0>>
        /\ last.value.avg_duration_ms = <<0, 0, 0, 0>>
        /\ last.value.max_duration_ms = <<0, 0, 0, 0>>
        /\ DOMAIN last.value.by_type = {}

\* C18 witness: statistics() after a clear() that removed records.
C18_Witness ==
    /\ Answered("statistics")
    /\ operations = <<>>
    /\ cleared # {}
    /\ max_entries >= 1

\* C19: every statistics() result is that of one state of the log in which
\* no append is half done: its total is min(pushes since the latest clear,
\* max_entries), never max_entries + 1, and its counts are those of the
\* latest max_entries records pushed.
C19_StatisticsAtomic ==
    Answered("statistics") =>
        LET st == last.value
        IN  /\ st.total = Min(Len(appended), max_entries)
            /\ st.total = Len(window)
            /\ st.successful =
                  Cardinality({i \in 1..Len(window) : window[i].success})
            /\ st.successful + st.failed = st.total
            /\ \A c \in OperationType :
                  CountFor(st.by_type, c) =
                     Cardinality({i \in 1..Len(window) : window[i].operation_type = c})

\* C19 witness: statistics() on a full log that has evicted, while another
\* thread holds a record it is about to append.
C19_Witness ==
    /\ Answered("statistics")
    /\ max_entries >= 1
    /\ Len(appended) > max_entries
    /\ built # {}
    /\ last.value.total = max_entries

\* the stored records rearranged by the permutation f of their indices
Rearranged(f) == [i \in 1..Len(operations) |-> operations[f[i]]]

\* C20: a log that holds the same records in another insertion order returns
\* the same statistics, in either build: the same value, or a panic for both.
C20_OrderIndependent ==
    \A f \in Permutations(1..Len(operations)) :
        /\ \A overflow_checks \in BOOLEAN :
              LET here == statistics(operations, overflow_checks)
                  there == statistics(Rearranged(f), overflow_checks)
              IN  /\ here.panicked = there.panicked
                  /\ ~here.panicked => here.stats = there.stats
        /\ Answered("statistics") =>
              \E overflow_checks \in BOOLEAN :
                  statistics(Rearranged(f), overflow_checks) =
                     [panicked |-> FALSE, stats |-> last.value]

\* C20 witness: statistics() on three records of three categories whose
\* durations are not in increasing order.
C20_Witness ==
    /\ Answered("statistics")
    /\ Len(operations) = 3
    /\ operations[1].duration_ms = U64(300)
    /\ operations[2].duration_ms = U64(100)
    /\ operations[3].duration_ms = U64(200)

\* indices of the stored records whose category is not automatic
NotAutomatic ==
    {i \in 1..Len(operations) : ~is_automatic(operations[i].operation_type)}

\* C23: get_user_operations(limit) returns the min(limit, number of
\* non-automatic records) most recent stored records of a non-automatic
\* category, the most recent first, and no record of an automatic category:
\* the limit counts the records that pass the filter.
C23_UserOperations ==
    Answered("get_user_operations") =>
        LET v == last.value
        IN  /\ Len(v) = Min(last.arg, Cardinality(NotAutomatic))
            /\ \A k \in 1..Len(v) :
                  /\ ~is_automatic(v[k].operation_type)
                  /\ \E i \in NotAutomatic :
                        /\ Cardinality({j \in NotAutomatic : j > i}) = k - 1
                        /\ v[k] = operations[i]

\* C23 witness: get_user_operations(1) on a log whose newest record is
\* automatic returns the newest of the two older, non-automatic records.
C23_Witness ==
    /\ Answered("get_user_operations")
    /\ last.arg = 1
    /\ Len(operations) = 3
    /\ is_automatic(operations[3].operation_type)
    /\ Cardinality(NotAutomatic) = 2
    /\ last.value = <<operations[2]>>

\* the category each subcommand token names
NamedCategory ==
    [tok \in {"describe", "new", "edit", "abandon", "rebase", "squash",
              "resolve", "branch", "bookmark", "undo", "restore"} |->
        CASE tok = "describe" -> "Describe" [] tok = "new" -> "New"
          [] tok = "edit" -> "Edit" [] tok = "abandon" -> "Abandon"
          [] tok = "rebase" -> "Rebase" [] tok = "squash" -> "Squash"
          [] tok = "resolve" -> "Resolve" [] tok = "branch" -> "Branch"
          [] tok = "bookmark" -> "Bookmark" [] tok = "undo" -> "Undo"
          [] tok = "restore" -> "Restore"]

\* C22: detect_operation_type returns one category for every command line:
\* Unknown for the empty one and for a first token it does not recognise,
\* the category the first token names otherwise, and after "git" GitFetch
\* for "fetch", GitPush for "push" and Unknown for anything else or nothing.
C22_ClassifierTotal ==
    Answered("detect_operation_type") =>
        LET args == last.arg
            c == last.value
        IN  /\ c \in OperationType
            /\ args = <<>> => c = "Unknown"
            /\ args # <<>> =>
                  IF args[1] \in DOMAIN NamedCategory THEN c = NamedCategory[args[1]]
                  ELSE IF args[1] = "git"
                  THEN IF Len(args) >= 2 /\ args[2] = "fetch" THEN c = "GitFetch"
                       ELSE IF Len(args) >= 2 /\ args[2] = "push" THEN c = "GitPush"
                       ELSE c = "Unknown"
                  ELSE c = "Unknown"

\* C22 witness: "git push" is classified as GitPush.
C22_Witness ==
    /\ Answered("detect_operation_type")
    /\ last.arg = <<"git", "push">>
    /\ last.value = "GitPush"

\* the instant at which the record of local id `id` was created: the k-th
\* record is created at the k-th reading of the clock
CreatedAt(id) == CHOOSE k \in 1..nextUuid : Uuid(k) = id

\* C25 (as amended): every stored record carries the timestamp of the
\* instant it was created at, which the log never changes, and the log keeps
\* the records in the order they were appended in: of two stored records the
\* one created first has the smaller or equal timestamp, wherever it stands.
C25_TimestampSetOnce ==
    \A i, j \in 1..Len(operations) :
        /\ operations[i].timestamp = CreatedAt(operations[i].id)
        /\ CreatedAt(operations[i].id) <= CreatedAt(operations[j].id)
              => operations[i].timestamp <= operations[j].timestamp

\* C25 witness: two stored records, the later created one appended first.
C25_Witness ==
    /\ ~locked
    /\ Len(operations) = 2
    /\ CreatedAt(operations[1].id) > CreatedAt(operations[2].id)
    /\ operations[1].timestamp > operations[2].timestamp

\* C25 as stated: the timestamps of the stored records never decrease along
\* the stored order.
C25_AsStated ==
    \A i, j \in 1..Len(operations) :
        i < j => operations[i].timestamp <= operations[j].timestamp

\* the stored records other than the one of local id `id`, in stored order
Without(id) == SelectSeq(operations, LAMBDA r : r.id # id)

\* the stored record of local id `id`
Stored(id) == operations[CHOOSE i \in 1..Len(operations) : operations[i].id = id]

\* C30 (as amended): an add_operation call removes at most one record, and
\* one only if the log held exactly max_entries records before the call; with
\* max_entries >= 1 the record removed is the oldest one and the appended
\* record ends at the most-recent position; with max_entries = 0 the record
\* removed is the appended record itself and the log stays empty.
C30_EvictsAtMostOldest ==
    [][(last'.op = "add_operation" /\ ~last'.panicked) =>
          LET before == Without(last'.arg)
              record == Stored(last'.arg)
              removed == Len(before) + 1 - Len(operations')
          IN  /\ removed \in {0, 1}
              /\ removed = 1 => Len(before) = max_entries
              /\ operations' =
                    IF removed = 0 THEN Append(before, record)
                    ELSE IF max_entries = 0 THEN <<>>
                    ELSE Append(Tail(before), record)]_vars

\* C30 witness: an add_operation call has returned on a log of capacity at
\* least one that was full before it: the record it appended is the newest
\* and an older one is gone.
C30_Witness ==
    /\ Answered("add_operation")
    /\ max_entries >= 1
    /\ Len(operations) = max_entries
    /\ Len(appended) > max_entries
    /\ operations[Len(operations)].id = last.arg

\* C30 as stated: the call removes at most one record, one only from a log
\* that held max_entries records, the oldest one, and the appended record is
\* the newest stored record when the call returns.
C30_AsStated ==
    [][(last'.op = "add_operation" /\ ~last'.panicked) =>
          LET before == Without(last'.arg)
              record == Stored(last'.arg)
              removed == Len(before) + 1 - Len(operations')
          IN  /\ removed \in {0, 1}
              /\ removed = 1 => Len(before) = max_entries
              /\ IF removed = 0 THEN operations' = Append(before, record)
                 ELSE /\ before # <<>>
                      /\ operations' = Append(Tail(before), record)]_vars

\* C24: clear() leaves the store empty, and once a clear() has removed
\* records the log answers as a fresh log of the same max_entries would after
\* the appends made since: count() is 0 and is_empty() is true until the next
\* append, then get_all() is the last max_entries records appended since the
\* clear, in append order and field for field, and count() their number.
C24_ClearIsFresh ==
    /\ Answered("clear") => operations = <<>>
    /\ cleared # {} =>
          /\ Answered("get_all") =>
                /\ last.value = window
                /\ Ids(last.value) = LastK(AppendedIds, max_entries)
          /\ Answered("count") => last.value = Min(Len(appended), max_entries)
          /\ Answered("is_empty") =>
                (last.value <=> (appended = <<>> \/ max_entries = 0))

\* C24 witness: get_all() after a clear() that removed a record and two
\* later appends, on a log of capacity 1: it returns the later of the two.
C24_Witness ==
    /\ Answered("get_all")
    /\ cleared # {}
    /\ max_entries = 1
    /\ Len(appended) = 2
    /\ Ids(last.value) = <<appended[2].id>>

\* the methods called in a sequence of builder calls
Methods(calls) == {calls[i].method : i \in 1..Len(calls)}

\* a sequence without two equal elements
NoDuplicates(seq) == \A i, j \in 1..Len(seq) : seq[i] = seq[j] => i = j

\* C21 as stated: build() gives a record whose unset fields are the empty
\* string, Unknown and 0 and which is a success without error unless
\* failed(..) was called; the log counts such a record as successful in
\* statistics() and leaves it out of failed_operations().
C21_BuilderDefaults ==
    /\ Answered("build") =>
          LET r == last.value
              called == Methods(last.arg)
          IN  /\ "command" \notin called => r.command = <<>>
              /\ "user" \notin called => r.user = ""
              /\ "hostname" \notin called => r.hostname = ""
              /\ "operation_type" \notin called => r.operation_type = "Unknown"
              /\ "duration_ms" \notin called => r.duration_ms = U64Zero
              /\ "failed" \notin called => r.success /\ r.error = None
              /\ "failed" \in called => ~r.success /\ r.error # None
    /\ Answered("failed_operations") =>
          \A k \in 1..Len(last.value) : last.value[k].error # None
    /\ Answered("statistics") =>
          last.value.successful =
              Cardinality({i \in 1..Len(operations) : operations[i].error = None})

\* C27 as stated: no record has a tag twice, whether its tags came from the
\* builder's tag(..) or from add_tag(..), and add_tag of a tag the record has
\* leaves its tags as they were.
C27_TagsDeduplicated ==
    /\ \A r \in built : NoDuplicates(r.tags)
    /\ \A i \in 1..Len(operations) : NoDuplicates(operations[i].tags)
    /\ Answered("add_tag") =>
          LET before == last.arg[1].tags
              tag == last.arg[2]
          IN  (\E i \in 1..Len(before) : before[i] = tag) =>
                  last.value.tags = before

\* the local ids of the records created so far that are held or were appended
KnownIds == {r.id : r \in built} \cup IdSet(operations) \cup IdSet(appended)

SinkCalls == {"sync_operation", "store_episode", "batch_sync_operations"}

\* C29: a call of the sink, whether the sink is disabled, succeeds or fails,
\* leaves the stored records, the capacity, the Mutex and the records callers
\* hold as they were, and get_all() and count() answer as they do in a log no
\* sink was ever told about: the last max_entries appended records, and
\* their number.
C29_SinkLeavesLog ==
    /\ [](/\ Answered("get_all") => last.value = window
          /\ Answered("count") => last.value = Min(Len(appended), max_entries)
          /\ Answered("add_operation") => last.value = "unit")
    /\ [][last'.op \in SinkCalls =>
             /\ operations' = operations
             /\ max_entries' = max_entries
             /\ <<locked, poisoned, built, pushed>>' = <<locked, poisoned, built, pushed>>]_vars

\* C29 witness: a batch of two records sent to an enabled sink has failed.
C29_Witness ==
    /\ Answered("batch_sync_operations")
    /\ last.arg
    /\ last.value[1] = "Err"
    /\ Len(operations) = 2

\* thread t holds the guard of JJWrapper's operation_log
HoldsLog(t) == operation_log.holder = t

\* thread t is inside a log method, holding the guard of `operations`
HoldsOperations(t) ==
    /\ Running(t)
    /\ NextStep(t).act = "unlock"
    /\ NextStep(t).mutex = "operations"

\* the step thread t takes next does not wait for a Mutex another thread, or
\* t itself, holds
CanStep(t) ==
    NextStep(t).act = "lock" =>
        IF NextStep(t).mutex = "operation_log" THEN operation_log.holder = "none"
        ELSE ~locked

\* C28 (as amended): no deadlock is reachable. A JJWrapper method holds two
\* Mutexes at a time, operation_log and inside it the log's `operations`,
\* always taken in that order and released in the reverse order; the thread
\* that holds a Mutex never waits, so whenever calls are under way one of
\* them can take its next step.
C28_NoDeadlock ==
    /\ \A t \in Threads : HoldsOperations(t) => HoldsLog(t)
    /\ locked => \E t \in Threads : HoldsOperations(t)
    /\ \A t \in Threads : (Running(t) /\ HoldsLog(t)) => CanStep(t)
    /\ (\E t \in Threads : Running(t)) => \E t \in Threads : Running(t) /\ CanStep(t)
    /\ \A t \in Threads : Running(t) \/ operation_log.holder # t

\* C28 witness: one thread is inside a log method with both guards while the
\* other waits for operation_log.
C28_Witness ==
    \E t, u \in Threads :
        /\ HoldsLog(t) /\ HoldsOperations(t)
        /\ Running(u) /\ ~CanStep(u)

\* C28 as stated: no operation holds more than one exclusive region at a
\* time, and whenever calls are under way one of them can proceed.
C28_AsStated ==
    /\ \A t \in Threads : ~(HoldsLog(t) /\ HoldsOperations(t))
    /\ (\E t \in Threads : Running(t)) => \E t \in Threads : Running(t) /\ CanStep(t)

\* C39 (as stated): statistics() returns whatever u64 durations the stored
\* records carry, and its total_duration_ms is the exact sum of them.
C39_StatisticsTotal ==
    last.op = "statistics" =>
        /\ ~last.panicked
        /\ ExactSum(operations, Len(operations)) =
              [low |-> last.value.total_duration_ms, carry |-> 0]


\* C37 (as stated): writing back the string the getter returns leaves the
\* category of the record as it was, whatever the category.
C37_RoundTrip ==
    Answered("set_operation_type") =>
        last.value.operation_type = last.arg.operation_type

\* two strings that differ at most in the case of their letters
SameButCase(a, b) ==
    /\ Len(a) = Len(b)
    /\ \A i \in 1..Len(a) :
          \/ a[i] = b[i]
          \/ \E k \in 1..26 : {a[i], b[i]} = {Capitals[k], Smalls[k]}

\* C38: from_string returns a category for every string: the category of
\* the known name the string spells, in whatever case, and Unknown when it
\* spells none (the empty string included); so two strings that differ only
\* in case get the same category.
C38_FromStringTotal ==
    Answered("from_string") =>
        LET s == last.arg
            spelt == {arm \in FromStringArms : SameButCase(Chars[s], Chars[arm[1]])}
        IN  /\ last.value \in OperationType
            /\ \A arm \in spelt : last.value = arm[2]
            /\ spelt = {} => last.value = "Unknown"
            /\ \A other \in NameInputs :
                  SameButCase(Chars[s], Chars[other]) =>
                      from_string(Chars[other]) = last.value

\* C38 witness: "SNAPSHOT" is parsed as Snapshot.
C38_Witness ==
    /\ Answered("from_string")
    /\ last.arg = "SNAPSHOT"
    /\ last.value = "Snapshot"

\* C36 (as stated): on a command line whose first token is a name
\* from_string knows, detect_operation_type returns the category from_string
\* returns for that name.
C36_ClassifiersAgree ==
    (/\ Answered("detect_operation_type")
     /\ last.arg # <<>>
     /\ from_string(Chars[last.arg[1]]) # "Unknown")
        => last.value = from_string(Chars[last.arg[1]])

\* an execute() call has returned Ok
ExecuteReturnedOk == Answered("execute") /\ last.value.result[1] = "Ok"

\* the record the call that has just returned created, the arguments it was
\* called with and the JJResult it returned
OwnRecord == last.value.operation[1]

\* the record is as execute() is to make it from its arguments and result
LoggedAs(record, args, result) ==
    /\ record.command = <<"jj">> \o args
    /\ record.operation_type = detect_operation_type(args)
    /\ record.success = result.success
    /\ record.duration_ms = result.execution_time_ms

\* the number of times the record with this id was pushed since the latest
\* clear
TimesAppended(id) == Len(SelectSeq(appended, LAMBDA a : a.id = id))

\* C31 (as amended): an execute(args) that returns Ok has pushed exactly one
\* record, whose command is "jj" followed by args, whose category is
\* detect_operation_type(args) and whose success flag and duration are those
\* of the returned result; when the call returns that record is the newest
\* of the log if max_entries >= 1, and the log is empty if max_entries = 0.
C31_ExecuteLogsOne ==
    ExecuteReturnedOk =>
        /\ LoggedAs(OwnRecord, last.value.args, last.value.result[2])
        /\ TimesAppended(OwnRecord.id) = 1
        /\ IF max_entries = 0 THEN operations = <<>>
           ELSE /\ operations # <<>>
                /\ operations[Len(operations)] = OwnRecord
                /\ \A i \in 1..(Len(operations) - 1) : operations[i].id # OwnRecord.id

\* C31 witness: an execute() returns Ok with its record the newest of two
\* while the other thread is inside a call.
C31_Witness ==
    /\ ExecuteReturnedOk
    /\ Len(operations) = 2
    /\ operations[2] = OwnRecord
    /\ \E u \in Threads : Running(u)

\* C31 as stated: after an execute(args) that returns Ok the log has the
\* record of the call at its most-recent position.
C31_AsStated ==
    ExecuteReturnedOk =>
        /\ LoggedAs(OwnRecord, last.value.args, last.value.result[2])
        /\ operations # <<>>
        /\ operations[Len(operations)] = OwnRecord

\* C32: an execute() whose command fails returns CommandFailed in a single
\* step of its own: it takes no lock and leaves the log, the records being
\* appended by others and both Mutexes as they were.
C32_FailureLeavesLog ==
    [][(/\ last'.op = "execute"
        /\ ~last'.panicked
        /\ last'.value.result[1] = "Err")
          => /\ last'.value.result[2] = "CommandFailed"
             /\ last'.value.operation = None
             /\ in_call[last'.arg] = Idle
             /\ UNCHANGED <<operations, pushed, appended, window, cleared,
                            locked, poisoned, operation_log, in_call, nextUuid>>]_vars

\* C32 witness: execute(["unknown_command"]) returns CommandFailed on a log
\* that holds a record while the other thread is inside a call.
C32_Witness ==
    /\ Answered("execute")
    /\ last.value.args = <<"unknown_command">>
    /\ last.value.result[1] = "Err"
    /\ operations # <<>>
    /\ \E u \in Threads : Running(u)

\* C33 (as stated): when describe(message) returns Ok, the record it returns
\* is the one its own execute() appended, of category Describe and with the
\* command "jj describe -m <message>", whatever other threads do meanwhile.
C33_DescribeReturnsOwn ==
    (Answered("describe") /\ last.value.result[1] = "Ok") =>
        /\ last.value.result[2] = OwnRecord
        /\ last.value.result[2].operation_type = "Describe"
        /\ last.value.result[2].command = <<"jj">> \o last.value.args

\* C34: the three figures get_stats() returns are those of the log as it is
\* when the call returns, which is the log every one of them was read from:
\* no execute() or clear_log() of another thread falls between two of them.
C34_StatsFromOneState ==
    Answered("get_stats") =>
        /\ last.value.total_operations = count(operations)
        /\ last.value.avg_duration_ms = avg_duration_ms(operations, TRUE).value
        /\ last.value.success_rate = success_rate(operations)

\* C34 witness: get_stats() returns the figures of a log with a record while
\* the other thread is inside execute() or clear_log().
C34_Witness ==
    /\ Answered("get_stats")
    /\ last.value.total_operations >= 1
    /\ \E u \in Threads : in_call[u].op \in {"execute", "clear_log"}

\* the address of the Vec a handle reaches
StoreOf(value) == LogOf(value).operations

\* C35: all clones of a JJOperationLog, and of a JJWrapper, reach one and
\* the same Vec and have the same max_entries: what get_all returns through
\* any of them is the content of that Vec, whichever clone the records were
\* appended or cleared through, and it never holds more than max_entries.
C35_ClonesShare ==
    /\ \A i, j \in 1..Len(handles) :
          /\ StoreOf(handles[i]) = StoreOf(handles[j])
          /\ LogOf(handles[i]).max_entries = LogOf(handles[j]).max_entries
    /\ Answered("get_all") =>
          /\ last.value = heap[StoreOf(handles[1])].vec
          /\ Len(last.value) <= max_entries

\* C35 witness: with three handles, get_all through the latest clone returns
\* two records.
C35_Witness ==
    /\ Len(handles) = 3
    /\ Answered("get_all")
    /\ last.arg = 3
    /\ Len(last.value) = 2

====
